---- MODULE Spec2Model ----
(***************************************************************************)
(* toytorrent: the client's inbound peer path.                             *)
(*                                                                         *)
(* The repository holds two implementations of the inbound connection     *)
(* path.  client/src/connection.rs runs one OS thread per connection and  *)
(* talks to the coordinator loop of client/src/lib.rs over std mpsc       *)
(* channels; client/src/peer/* runs the same handshake and read loop as   *)
(* tokio futures and asks for info-hash approval over a oneshot channel.  *)
(* The variable runtime says which of the two a behaviour executes.       *)
(*                                                                         *)
(* A socket read is a choice over what the peer sent (or an I/O error);   *)
(* a socket write may fail.  History variables (writes, emitted,          *)
(* received, lens, npayload, approval, replied, sent_out) record what     *)
(* happened; the code does not read them.                                  *)
(***************************************************************************)
EXTENDS Integers, Sequences, FiniteSets, TLC

\* ------------------------------------------------------------- bounds ----
MaxFrames == 2      \* frames the peers send after the handshake, in total
MaxOutgoing == 1    \* peer messages the coordinator sends, in total

\* ---------------------------------------------------------- constants ----
PEERMESSAGE_CHOKE == 0
PEERMESSAGE_UNCHOKE == 1
PEERMESSAGE_INTERESTED == 2
PEERMESSAGE_NOT_INTERESTED == 3
PEERMESSAGE_HAVE == 4
PEERMESSAGE_BITFIELD == 5
PEERMESSAGE_REQUEST == 6
PEERMESSAGE_PIECE == 7
PEERMESSAGE_CANCEL == 8
PEERMESSAGE_PORT == 9

PEERMESSAGE_CHOKE_LEN == 1
PEERMESSAGE_UNCHOKE_LEN == 1
PEERMESSAGE_INTERESTED_LEN == 1
PEERMESSAGE_NOT_INTERESTED_LEN == 1
PEERMESSAGE_HAVE_LEN == 5
PEERMESSAGE_BITFIELD_MIN_LEN == 1
PEERMESSAGE_REQUEST_LEN == 13
PEERMESSAGE_PIECE_MIN_LEN == 9
PEERMESSAGE_CANCEL_LEN == 13
PEERMESSAGE_PORT_LEN == 3

PIECE_MAX_LEN == 16 * 1024
PEERMESSAGE_PIECE_MAX_LEN == PEERMESSAGE_PIECE_MIN_LEN + PIECE_MAX_LEN

\* ------------------------------------------------------------ domains ----
Addrs == {"a1", "a2"}              \* remote socket addresses
KnownHash == "H1"                  \* the info-hash of the loaded metainfo
InfoHashes == {"H1", "H2"}         \* what a peer may put in its handshake
PeerIds == {"p1", "p2"}            \* what a peer may send as its peer-id
\* Peer-ids are interchangeable: the first peer's is called p1, the second
\* peer sends the same one or another one.
PeerIdsOf(a) == IF a = "a1" THEN {"p1"} ELSE PeerIds
NoPeer == [peer_id |-> "none"]

\* Frames a peer may put on the wire after the handshake: the value of the
\* 4-byte length field and the first payload byte.  Two well-formed
\* messages, a wrong length, an unknown id, the largest frame allowed and
\* the smallest one that is too large.
Frames ==
    { [len |-> 1, id |-> PEERMESSAGE_UNCHOKE],
      [len |-> 1, id |-> PEERMESSAGE_INTERESTED],
      [len |-> 2, id |-> PEERMESSAGE_CHOKE],
      [len |-> 1, id |-> 10],
      [len |-> PEERMESSAGE_PIECE_MAX_LEN, id |-> PEERMESSAGE_PIECE],
      [len |-> PEERMESSAGE_PIECE_MAX_LEN + 1, id |-> PEERMESSAGE_PIECE] }

VARIABLES
    runtime,              \* "threads" (connection.rs) or "tokio" (peer/*)
    pc,                   \* per address: position of its connection task
    err,                  \* per address: io::ErrorKind the task ended with
    acc_pc, acc_addr,     \* the acceptor's position and current connection
    ih, pid,              \* per address: info-hash and peer-id it read
    lens, npayload,       \* per address: frames whose length field was read;
                          \*   number of payloads read
    writes,               \* per address: what was written to its socket
    emitted,              \* per address: events its task sent
    chan,                 \* the coordinator's incoming channel
    outgoing,             \* per address: its Outgoing channel (threads)
    oneshot,              \* per address: its is_valid oneshot (tokio)
    approval,             \* per address: the answer its task received
                          \*   ("none" before)
    coord,                \* "running" or "panicked"
    pending_connections,  \* lib.rs: addresses registered by Opened
    connections,          \* lib.rs: SocketAddr -> Peer
    torrents,             \* InfoHash -> Torrent (peers, peer_connections)
    received,             \* per address: its events the coordinator took
                          \*   off chan
    replied,              \* per address: the coordinator's decision
    sent_out              \* per address: peer messages the coordinator sent

\* The tracker (tracker/src, src/tracker): its registry, its clock, its
\* announce handlers; and the operands of the pure functions under check.
VARIABLES
    TORRENTS,             \* the registry: InfoHash -> Torrent
    now,                  \* Instant::now(), in seconds
    query,                \* the query string of the last request served
    response,             \* the Response it was answered with
    h_pc,                 \* per handler: its position in announce_route
    h_req,                \* per handler: the Request it parsed
    h_resp,               \* per handler: the Response it built
    mutex,                \* the registry's Mutex: its holder, if any
    serial,               \* the registry had every announce run alone, in
                          \*   the order the lock was taken
    expected,             \* per handler: its Response in that order
    peer_a, peer_b,       \* two tracker::Peer values
    eq_result,            \* the result of peer_a == peer_b, once computed
    arg,                  \* the operand of the codec function under check
    result,               \* what the function made of it, once computed
    tracker_ids,          \* client/src/tracker.rs: InfoHash -> tracker id
    announced,            \* the Request the announce task built last
    assigned,             \* per InfoHash: the newest tracker id a Success
                          \*   response carried
    out_pc,               \* the dialling task's position in send_handshake
    in_pc,                \* the accepting task's position in accept_handshake
    to_in,                \* bytes written by the dialler, not yet read
    to_out,               \* bytes written by the acceptor, not yet read
    dialled               \* what the two tasks were given and have learnt

clientVars == << runtime, pc, err, acc_pc, acc_addr, ih, pid, lens, npayload,
                 writes, emitted, chan, outgoing, oneshot, approval, coord,
                 pending_connections, connections, torrents, received,
                 replied, sent_out >>
trackerVars == << TORRENTS, now, query, response >>
handlerVars == << h_pc, h_req, h_resp, mutex, serial, expected >>
peerVars == << peer_a, peer_b, eq_result >>
codecVars == << arg, result >>
announcerVars == << tracker_ids, announced, assigned >>
dialVars == << out_pc, in_pc, to_in, to_out, dialled >>

\* What the client never touches.
clientFrame == << trackerVars, handlerVars, peerVars, codecVars,
                 announcerVars, dialVars >>

vars == << clientVars, clientFrame >>

connVars == << pc, err, ih, pid, lens, npayload, writes, emitted, approval >>
coordVars == << coord, pending_connections, connections, torrents,
                received, replied, sent_out >>

\* ------------------------------------------------------------ helpers ----
\* common/src/peer/mod.rs, TryFrom<&[u8]> for PeerMessage: the message a
\* payload of the given length and first byte decodes to, or "Err".
try_from(len, id) ==
    IF len = 0 THEN "KeepAlive"
    ELSE IF id = PEERMESSAGE_CHOKE THEN
        (IF len = PEERMESSAGE_CHOKE_LEN THEN "Choke" ELSE "Err")
    ELSE IF id = PEERMESSAGE_UNCHOKE THEN
        (IF len = PEERMESSAGE_UNCHOKE_LEN THEN "Unchoke" ELSE "Err")
    ELSE IF id = PEERMESSAGE_INTERESTED THEN
        (IF len = PEERMESSAGE_INTERESTED_LEN THEN "Interested" ELSE "Err")
    ELSE IF id = PEERMESSAGE_NOT_INTERESTED THEN
        (IF len = PEERMESSAGE_NOT_INTERESTED_LEN THEN "NotInterested" ELSE "Err")
    ELSE IF id = PEERMESSAGE_HAVE THEN
        (IF len = PEERMESSAGE_HAVE_LEN THEN "Have" ELSE "Err")
    ELSE IF id = PEERMESSAGE_BITFIELD THEN
        (IF len >= PEERMESSAGE_BITFIELD_MIN_LEN THEN "Bitfield" ELSE "Err")
    ELSE IF id = PEERMESSAGE_REQUEST THEN
        (IF len = PEERMESSAGE_REQUEST_LEN THEN "Request" ELSE "Err")
    ELSE IF id = PEERMESSAGE_PIECE THEN
        (IF len >= PEERMESSAGE_PIECE_MIN_LEN THEN "Piece" ELSE "Err")
    ELSE IF id = PEERMESSAGE_CANCEL THEN
        (IF len = PEERMESSAGE_CANCEL_LEN THEN "Cancel" ELSE "Err")
    ELSE IF id = PEERMESSAGE_PORT THEN
        (IF len = PEERMESSAGE_PORT_LEN THEN "Port" ELSE "Err")
    ELSE "Err"

\* The size check of the read loop; the mutant also turns away a frame of
\* exactly the largest size.
FrameTooLarge_inclusive(len) == len >= PEERMESSAGE_PIECE_MAX_LEN

FrameTooLarge(len) == len > PEERMESSAGE_PIECE_MAX_LEN

\* Outgoing::Signal(..) and Outgoing::Message(..) of connection.rs.
Signal(s) == [kind |-> "Signal", signal |-> s]
OutgoingMessage(m) == [kind |-> "Message", message |-> m]

\* connection.rs: receiver.recv() != Ok(Outgoing::Signal(Signal::InfoHashOk));
\* the mutant takes any signal for an approval.
IsInfoHashOk_any_signal(answer) == answer.kind = "Signal"

IsInfoHashOk(answer) == answer = Signal("InfoHashOk")

\* peer/incoming_connection.rs: is_valid_receiver.await != Ok(true)
IsValid(answer) == answer = "true"

\* connection.rs, Peer::new
Peer_new(peer_id) ==
    [ peer_id |-> peer_id,
      am_choking |-> TRUE, am_interested |-> FALSE,
      peer_choking |-> TRUE, peer_interested |-> FALSE ]

\* peer/mod.rs, Peer::new
Peer_new_tokio(peer_id, info_hash) ==
    [ peer_id |-> peer_id, info_hash |-> info_hash,
      am_choking |-> TRUE, am_interested |-> FALSE,
      peer_choking |-> TRUE, peer_interested |-> FALSE ]

Opened(a) == [from |-> a, type |-> "Opened"]
HandshakeInfoHash(a, h) == [from |-> a, type |-> "HandshakeInfoHash", info_hash |-> h]
Connected(a, h, p) == [from |-> a, type |-> "Connected", info_hash |-> h, peer_id |-> p]
Message(a, m) == [from |-> a, type |-> "Message", message |-> m]

\* mpsc::Sender::send: the channel is a FIFO queue; the mutant hands the
\* newest event out first.
Send_lifo(q, e) == << e >> \o q

Send(q, e) == Append(q, e)

TotalFrames == Len(lens["a1"]) + Len(lens["a2"])
TotalOutgoing == Len(sent_out["a1"]) + Len(sent_out["a2"])

Running == coord = "running"

\* A task ends with an error.
Fail(a, kind) == /\ pc' = [pc EXCEPT ![a] = "failed"]
                 /\ err' = [err EXCEPT ![a] = kind]

\* ---------------------------------------------------------------- Init ----
\* Option<T>: None, Some(x).
None == << >>
Some(x) == << x >>

\* The announce handlers of the tracker (tide runs one task per request).
Handlers == {"h1", "h2"}
NoResponse == [kind |-> "none"]
NoRequest == [remote |-> None, input |-> << >>]

\* tracker/src/lib.rs run: TORRENTS = Torrents::default(); no request yet.
TrackerStart ==
    /\ TORRENTS = << >>
    /\ now = 0
    /\ query = NoRequest
    /\ response = NoResponse

HandlersStart ==
    /\ h_pc = [h \in Handlers |-> "idle"]
    /\ h_req = [h \in Handlers |-> None]
    /\ h_resp = [h \in Handlers |-> NoResponse]
    /\ mutex = None
    /\ serial = << >>
    /\ expected = [h \in Handlers |-> NoResponse]

PeerStart ==
    /\ peer_a = None
    /\ peer_b = None
    /\ eq_result = None

CodecStart ==
    /\ arg = None
    /\ result = None

\* client/src/tracker.rs announce, before the first Outgoing is received.
AnnouncerStart ==
    /\ tracker_ids = << >>
    /\ announced = None
    /\ assigned = << >>

\* No connection is being dialled.
DialStart ==
    /\ out_pc = "none"
    /\ in_pc = "none"
    /\ to_in = << >>
    /\ to_out = << >>
    /\ dialled = None

\* client/src/lib.rs run, before the first connection.
ClientStart ==
    /\ runtime \in {"threads", "tokio"}
    /\ pc = [a \in Addrs |-> "none"]
    /\ err = [a \in Addrs |-> "none"]
    /\ acc_pc = "accept"
    /\ acc_addr = "none"
    /\ ih = [a \in Addrs |-> "none"]
    /\ pid = [a \in Addrs |-> "none"]
    /\ lens = [a \in Addrs |-> << >>]
    /\ npayload = [a \in Addrs |-> 0]
    /\ writes = [a \in Addrs |-> << >>]
    /\ emitted = [a \in Addrs |-> << >>]
    /\ chan = << >>
    /\ outgoing = [a \in Addrs |-> << >>]
    /\ oneshot = [a \in Addrs |-> "unset"]
    /\ approval = [a \in Addrs |-> "none"]
    /\ coord = "running"
    /\ pending_connections = {}
    /\ connections = [a \in Addrs |-> NoPeer]
    /\ torrents = [h \in {KnownHash} |-> [peers |-> {}, peer_connections |-> {}]]
    /\ received = [a \in Addrs |-> << >>]
    /\ replied = [a \in Addrs |-> "none"]
    /\ sent_out = [a \in Addrs |-> << >>]

Init ==
    /\ ClientStart /\ TrackerStart /\ HandlersStart /\ PeerStart
    /\ CodecStart /\ AnnouncerStart /\ DialStart

\* ------------------------------------------------------- environment ----
\* A remote peer opens a TCP connection; it waits in the listener's backlog.
\* Addresses are interchangeable: the first peer to connect is called a1.
PeerConnects(a) ==
    /\ Running
    /\ pc[a] = "none"
    /\ a = "a2" => pc["a1"] # "none"
    /\ pc' = [pc EXCEPT ![a] = "queued"]
    /\ UNCHANGED << runtime, err, acc_pc, acc_addr, ih, pid, lens, npayload,
                    writes, emitted, chan, outgoing, oneshot, approval,
                    coord, pending_connections, connections, torrents,
                    received, replied, sent_out >>
    /\ UNCHANGED clientFrame

\* The tokio acceptor runs the handshake of the connection it accepted
\* inline (peer/mod.rs listen awaits Connection::accept): when that
\* handshake ends, the acceptor is back at listener.accept().
AcceptorResumes(a) ==
    IF runtime = "tokio" /\ acc_addr = a
    THEN acc_pc' = "accept" /\ acc_addr' = "none"
    ELSE UNCHANGED << acc_pc, acc_addr >>

\* ------------------------------------------ handshake, both runtimes ----
\* Read the 28-byte prelude, compare it, write ours back.
ReadPrelude(a) ==
    /\ Running
    /\ pc[a] = "rd_prelude"
    /\ \E r \in {"ok", "bad", "eof", "wfail"} :
         CASE r = "ok" ->
                /\ writes' = [writes EXCEPT ![a] = Append(@, "PRELUDE")]
                /\ pc' = [pc EXCEPT ![a] = "rd_reserved"]
                /\ UNCHANGED << err, acc_pc, acc_addr >>
           [] r = "bad" ->
                /\ Fail(a, "InvalidData") /\ AcceptorResumes(a)
                /\ UNCHANGED writes
           [] OTHER ->
                /\ Fail(a, "io") /\ AcceptorResumes(a)
                /\ UNCHANGED writes
    /\ UNCHANGED << runtime, ih, pid, lens, npayload, emitted, chan,
                    outgoing, oneshot, approval >>
    /\ UNCHANGED coordVars
    /\ UNCHANGED clientFrame

\* Read the 8 reserved bytes, write ours back.
ReadReserved(a) ==
    /\ Running
    /\ pc[a] = "rd_reserved"
    /\ \E r \in {"ok", "fail"} :
         IF r = "ok"
         THEN /\ writes' = [writes EXCEPT ![a] = Append(@, "RESERVED")]
              /\ pc' = [pc EXCEPT ![a] = "rd_infohash"]
              /\ UNCHANGED << err, acc_pc, acc_addr >>
         ELSE /\ Fail(a, "io") /\ AcceptorResumes(a)
              /\ UNCHANGED writes
    /\ UNCHANGED << runtime, ih, pid, lens, npayload, emitted, chan,
                    outgoing, oneshot, approval >>
    /\ UNCHANGED coordVars
    /\ UNCHANGED clientFrame

\* Read the 20-byte info-hash and forward it to the coordinator.
ReadInfoHash(a) ==
    /\ Running
    /\ pc[a] = "rd_infohash"
    /\ \/ /\ Fail(a, "io") /\ AcceptorResumes(a)
          /\ UNCHANGED << ih, emitted, chan >>
       \/ \E h \in InfoHashes :
             /\ ih' = [ih EXCEPT ![a] = h]
             /\ chan' = Send(chan, HandshakeInfoHash(a, h))
             /\ emitted' = [emitted EXCEPT ![a] = Append(@, HandshakeInfoHash(a, h))]
             /\ pc' = [pc EXCEPT ![a] = "await_approval"]
             /\ UNCHANGED << err, acc_pc, acc_addr >>
    /\ UNCHANGED << runtime, pid, lens, npayload, writes, outgoing, oneshot,
                    approval >>
    /\ UNCHANGED coordVars
    /\ UNCHANGED clientFrame

\* The task has the coordinator's answer: on approval it writes the
\* info-hash back, otherwise it ends with NotFound.
Answered(a, answer, ok) ==
    /\ approval' = [approval EXCEPT ![a] = answer]
    /\ IF ok
       THEN /\ \E w \in BOOLEAN :
                 IF w
                 THEN /\ writes' = [writes EXCEPT ![a] = Append(@, "INFO_HASH")]
                      /\ pc' = [pc EXCEPT ![a] = "rd_peerid"]
                      /\ UNCHANGED << err, acc_pc, acc_addr >>
                 ELSE /\ Fail(a, "io") /\ AcceptorResumes(a)
                      /\ UNCHANGED writes
       ELSE /\ Fail(a, "NotFound") /\ AcceptorResumes(a)
            /\ UNCHANGED writes
    /\ UNCHANGED << runtime, ih, pid, lens, npayload, emitted, chan >>
    /\ UNCHANGED coordVars
    /\ UNCHANGED clientFrame

\* Read the remote peer-id, write ours; the handshake returns Ok.
ReadPeerId(a) ==
    /\ Running
    /\ pc[a] = "rd_peerid"
    /\ \/ /\ Fail(a, "io") /\ AcceptorResumes(a)
          /\ UNCHANGED << pid, writes >>
       \/ \E p \in PeerIdsOf(a) :
             /\ pid' = [pid EXCEPT ![a] = p]
             /\ writes' = [writes EXCEPT ![a] = Append(@, "PEER_ID")]
             /\ pc' = [pc EXCEPT ![a] = "send_connected"]
             /\ UNCHANGED << err, acc_pc, acc_addr >>
    /\ UNCHANGED << runtime, ih, lens, npayload, emitted, chan, outgoing,
                    oneshot, approval >>
    /\ UNCHANGED coordVars
    /\ UNCHANGED clientFrame

\* ------------------------------------- read loop, both runtimes ----
\* Read the 4-byte length field and apply the size check.
ReadLen(a) ==
    /\ Running
    /\ pc[a] = "rd_len"
    /\ \/ /\ Fail(a, "io")
          /\ UNCHANGED lens
       \/ /\ TotalFrames < MaxFrames
          /\ \E f \in Frames :
               /\ lens' = [lens EXCEPT ![a] = Append(@, f)]
               /\ IF FrameTooLarge(f.len)
                  THEN Fail(a, "Unsupported")
                  ELSE /\ pc' = [pc EXCEPT ![a] = "rd_payload"]
                       /\ UNCHANGED err
    /\ UNCHANGED << runtime, acc_pc, acc_addr, ih, pid, npayload, writes,
                    emitted, chan, outgoing, oneshot, approval >>
    /\ UNCHANGED coordVars
    /\ UNCHANGED clientFrame

\* Read the payload and decode it; the mutant ends the task on a payload
\* that does not decode.
ReadPayload_strict(a) ==
    /\ Running
    /\ pc[a] = "rd_payload"
    /\ \/ /\ Fail(a, "io")
          /\ UNCHANGED << npayload, emitted, chan >>
       \/ LET f == lens[a][Len(lens[a])]
              m == try_from(f.len, f.id)
          IN /\ npayload' = [npayload EXCEPT ![a] = @ + 1]
             /\ IF m # "Err"
                THEN /\ chan' = Send(chan, Message(a, m))
                     /\ emitted' = [emitted EXCEPT ![a] = Append(@, Message(a, m))]
                     /\ pc' = [pc EXCEPT ![a] = "rd_len"]
                     /\ UNCHANGED err
                ELSE /\ UNCHANGED << chan, emitted >>
                     /\ Fail(a, "InvalidData")
    /\ UNCHANGED << runtime, acc_pc, acc_addr, ih, pid, lens, writes,
                    outgoing, oneshot, approval >>
    /\ UNCHANGED coordVars
    /\ UNCHANGED clientFrame

\* Read the payload, decode it, forward the message (or log the error).
ReadPayload(a) ==
    /\ Running
    /\ pc[a] = "rd_payload"
    /\ \/ /\ Fail(a, "io")
          /\ UNCHANGED << npayload, emitted, chan >>
       \/ LET f == lens[a][Len(lens[a])]
              m == try_from(f.len, f.id)
          IN /\ npayload' = [npayload EXCEPT ![a] = @ + 1]
             /\ IF m # "Err"
                THEN /\ chan' = Send(chan, Message(a, m))
                     /\ emitted' = [emitted EXCEPT ![a] = Append(@, Message(a, m))]
                ELSE UNCHANGED << chan, emitted >>
             /\ pc' = [pc EXCEPT ![a] = "rd_len"]
             /\ UNCHANGED err
    /\ UNCHANGED << runtime, acc_pc, acc_addr, ih, pid, lens, writes,
                    outgoing, oneshot, approval >>
    /\ UNCHANGED coordVars
    /\ UNCHANGED clientFrame

\* ----------------------------------------- connection.rs (threads) ----
\* listen_for_connections: accept a socket and spawn its thread.  The
\* Opened event is sent in a second step: the new thread already runs.
listen_for_connections_accept(a) ==
    /\ Running
    /\ runtime = "threads"
    /\ acc_pc = "accept"
    /\ pc[a] = "queued"
    /\ pc' = [pc EXCEPT ![a] = "rd_prelude"]
    /\ acc_pc' = "send_opened"
    /\ acc_addr' = a
    /\ UNCHANGED << runtime, err, ih, pid, lens, npayload, writes, emitted,
                    chan, outgoing, oneshot, approval >>
    /\ UNCHANGED coordVars
    /\ UNCHANGED clientFrame

\* listen_for_connections: send Opened { sender, thread } and loop.
listen_for_connections_opened ==
    /\ Running
    /\ runtime = "threads"
    /\ acc_pc = "send_opened"
    /\ chan' = Send(chan, Opened(acc_addr))
    /\ acc_pc' = "accept"
    /\ acc_addr' = "none"
    /\ UNCHANGED << runtime, outgoing, oneshot >>
    /\ UNCHANGED connVars
    /\ UNCHANGED coordVars
    /\ UNCHANGED clientFrame

accept_handshake_prelude(a) == runtime = "threads" /\ ReadPrelude(a)
accept_handshake_reserved(a) == runtime = "threads" /\ ReadReserved(a)
accept_handshake_info_hash(a) == runtime = "threads" /\ ReadInfoHash(a)
accept_handshake_peer_id(a) == runtime = "threads" /\ ReadPeerId(a)

\* accept_handshake: receiver.recv() blocks until the Outgoing channel
\* holds a value; anything but Signal(InfoHashOk) ends the task.
accept_handshake_recv(a) ==
    /\ Running
    /\ runtime = "threads"
    /\ pc[a] = "await_approval"
    /\ outgoing[a] # << >>
    /\ outgoing' = [outgoing EXCEPT ![a] = Tail(@)]
    /\ LET answer == Head(outgoing[a])
       IN Answered(a, IF answer.kind = "Signal" THEN answer.signal ELSE "Message",
                   IsInfoHashOk(answer))
    /\ UNCHANGED oneshot

\* accept_connection: the handshake returned Ok; send Connected and enter
\* the read loop.
accept_connection_connected(a) ==
    /\ Running
    /\ runtime = "threads"
    /\ pc[a] = "send_connected"
    /\ chan' = Send(chan, Connected(a, ih[a], pid[a]))
    /\ emitted' = [emitted EXCEPT ![a] = Append(@, Connected(a, ih[a], pid[a]))]
    /\ pc' = [pc EXCEPT ![a] = "rd_len"]
    /\ UNCHANGED << runtime, err, acc_pc, acc_addr, ih, pid, lens, npayload,
                    writes, outgoing, oneshot, approval >>
    /\ UNCHANGED coordVars
    /\ UNCHANGED clientFrame

accept_connection_len(a) == runtime = "threads" /\ ReadLen(a)
accept_connection_payload(a) == runtime = "threads" /\ ReadPayload(a)

\* --------------------------------------------------- peer/* (tokio) ----
\* listen: listener.accept().await, then Connection::accept(..).await: the
\* handshake of the accepted connection runs inside the acceptor's loop.
listen(a) ==
    /\ Running
    /\ runtime = "tokio"
    /\ acc_pc = "accept"
    /\ pc[a] = "queued"
    /\ pc' = [pc EXCEPT ![a] = "rd_prelude"]
    /\ acc_pc' = "handshake"
    /\ acc_addr' = a
    /\ UNCHANGED << runtime, err, ih, pid, lens, npayload, writes, emitted,
                    chan, outgoing, oneshot, approval >>
    /\ UNCHANGED coordVars
    /\ UNCHANGED clientFrame

handshake_prelude(a) == runtime = "tokio" /\ ReadPrelude(a)
handshake_reserved(a) == runtime = "tokio" /\ ReadReserved(a)
handshake_info_hash(a) == runtime = "tokio" /\ ReadInfoHash(a)
handshake_peer_id(a) == runtime = "tokio" /\ ReadPeerId(a)

\* handshake: is_valid_receiver.await.
handshake_is_valid(a) ==
    /\ Running
    /\ runtime = "tokio"
    /\ pc[a] = "await_approval"
    /\ oneshot[a] # "unset"
    /\ Answered(a, oneshot[a], IsValid(oneshot[a]))
    /\ UNCHANGED << outgoing, oneshot >>

\* Peer::send: the Peer, which owns the Connection<Active>, is moved into
\* the Connected event; Connection::accept returns and listen loops.
Peer_send(a) ==
    /\ Running
    /\ runtime = "tokio"
    /\ pc[a] = "send_connected"
    /\ chan' = Send(chan, Connected(a, ih[a], pid[a]))
    /\ emitted' = [emitted EXCEPT ![a] = Append(@, Connected(a, ih[a], pid[a]))]
    /\ pc' = [pc EXCEPT ![a] = "moved"]
    /\ AcceptorResumes(a)
    /\ UNCHANGED << runtime, err, ih, pid, lens, npayload, writes, outgoing,
                    oneshot, approval >>
    /\ UNCHANGED coordVars
    /\ UNCHANGED clientFrame

Active_listen_len(a) == runtime = "tokio" /\ ReadLen(a)
Active_listen_payload(a) == runtime = "tokio" /\ ReadPayload(a)

\* ------------------------------------------- lib.rs run (threads) ----
\* The Announce and IoError arms of run touch none of the tables and are
\* left out; the arms below are the ones peers reach.
\* The event at the head of the coordinator's channel.
Next_event == Head(chan)

\* while let Ok(message) = incoming_receiver.recv()
Recv ==
    /\ Running
    /\ chan # << >>
    /\ chan' = Tail(chan)
    /\ received' = [received EXCEPT ![Next_event.from] = Append(@, Next_event)]
    /\ UNCHANGED clientFrame

\* IncomingEvent::Opened: register the connection as pending.
run_Opened ==
    /\ runtime = "threads"
    /\ Recv
    /\ Next_event.type = "Opened"
    /\ pending_connections' = pending_connections \cup {Next_event.from}
    /\ UNCHANGED << runtime, acc_pc, acc_addr, outgoing, oneshot, coord,
                    connections, torrents, replied, sent_out >>
    /\ UNCHANGED connVars

\* The decision of the HandshakeInfoHash arm.
Decision(info_hash) ==
    IF info_hash \in DOMAIN torrents THEN "InfoHashOk" ELSE "Close"

\* IncomingEvent::HandshakeInfoHash: answer through the sender stored in
\* pending_connections; without an entry the event is only logged.
run_HandshakeInfoHash ==
    /\ runtime = "threads"
    /\ Recv
    /\ Next_event.type = "HandshakeInfoHash"
    /\ LET a == Next_event.from
           d == Decision(Next_event.info_hash)
       IN IF a \in pending_connections
          THEN /\ outgoing' = [outgoing EXCEPT ![a] = Append(@, Signal(d))]
               /\ replied' = [replied EXCEPT ![a] = d]
          ELSE UNCHANGED << outgoing, replied >>
    /\ UNCHANGED << runtime, acc_pc, acc_addr, oneshot, coord,
                    pending_connections, connections, torrents, sent_out >>
    /\ UNCHANGED connVars

\* IncomingEvent::Connected: move the connection from pending_connections
\* into connections as a new Peer.
run_Connected ==
    /\ runtime = "threads"
    /\ Recv
    /\ Next_event.type = "Connected"
    /\ LET a == Next_event.from
       IN IF a \in pending_connections
          THEN /\ pending_connections' = pending_connections \ {a}
               /\ connections' = [connections EXCEPT
                                    ![a] = Peer_new(Next_event.peer_id)]
          ELSE UNCHANGED << pending_connections, connections >>
    /\ UNCHANGED << runtime, acc_pc, acc_addr, outgoing, oneshot, coord,
                    torrents, replied, sent_out >>
    /\ UNCHANGED connVars

\* IncomingEvent::Message and IncomingEvent::Closed: todo!() panics.  run
\* is awaited by main, so the panic ends the process and every thread.
run_todo ==
    /\ runtime = "threads"
    /\ Recv
    /\ Next_event.type \in {"Message", "Closed"}
    /\ coord' = "panicked"
    /\ UNCHANGED << runtime, acc_pc, acc_addr, outgoing, oneshot,
                    pending_connections, connections, torrents, replied,
                    sent_out >>
    /\ UNCHANGED connVars

\* The holder of Peer.connection.sender puts a PeerMessage on the
\* connection's Outgoing channel.
OutMessages == {"Unchoke", "Interested"}

sender_send(a) ==
    /\ Running
    /\ runtime = "threads"
    /\ connections[a] # NoPeer
    /\ TotalOutgoing < MaxOutgoing
    /\ \E m \in OutMessages :
         /\ outgoing' = [outgoing EXCEPT ![a] = Append(@, OutgoingMessage(m))]
         /\ sent_out' = [sent_out EXCEPT ![a] = Append(@, m)]
    /\ UNCHANGED << runtime, acc_pc, acc_addr, chan, oneshot, coord,
                    pending_connections, connections, torrents, received,
                    replied >>
    /\ UNCHANGED connVars
    /\ UNCHANGED clientFrame

\* ------------------------------- coordinator of the tokio runtime ----
\* HandshakeInfoHash { info_hash, is_valid_sender }:
\* send reply(torrents.contains(info_hash)).
coordinator_HandshakeInfoHash ==
    /\ runtime = "tokio"
    /\ Recv
    /\ Next_event.type = "HandshakeInfoHash"
    /\ LET a == Next_event.from
           d == Next_event.info_hash \in DOMAIN torrents
       IN /\ oneshot' = [oneshot EXCEPT ![a] = IF d THEN "true" ELSE "false"]
          /\ replied' = [replied EXCEPT ![a] = IF d THEN "InfoHashOk" ELSE "Close"]
    /\ UNCHANGED << runtime, acc_pc, acc_addr, outgoing, coord,
                    pending_connections, connections, torrents, sent_out >>
    /\ UNCHANGED connVars

\* Connected { peer }: place the peer in the matching torrent, record the
\* reverse address mapping; the owner of the Peer drives its read loop.
coordinator_Connected ==
    /\ runtime = "tokio"
    /\ Recv
    /\ Next_event.type = "Connected"
    /\ LET a == Next_event.from
           h == Next_event.info_hash
           p == Next_event.peer_id
       IN /\ connections' = [connections EXCEPT ![a] = Peer_new_tokio(p, h)]
          /\ torrents' = [torrents EXCEPT
                 ![h] = [peers |-> @.peers \cup {p},
                         peer_connections |->
                            {x \in @.peer_connections : x[1] # a} \cup {<<a, p>>}]]
          /\ pc' = [pc EXCEPT ![a] = "rd_len"]
    /\ UNCHANGED << runtime, err, acc_pc, acc_addr, ih, pid, lens, npayload,
                    writes, emitted, outgoing, oneshot, approval, coord,
                    pending_connections, replied, sent_out >>

\* Message { message }: update peer_choking / peer_interested on choke and
\* interest messages.
coordinator_Message ==
    /\ runtime = "tokio"
    /\ Recv
    /\ Next_event.type = "Message"
    /\ LET a == Next_event.from
           m == Next_event.message
       IN connections' = [connections EXCEPT ![a] =
             CASE m = "Choke" -> [@ EXCEPT !.peer_choking = TRUE]
               [] m = "Unchoke" -> [@ EXCEPT !.peer_choking = FALSE]
               [] m = "Interested" -> [@ EXCEPT !.peer_interested = TRUE]
               [] m = "NotInterested" -> [@ EXCEPT !.peer_interested = FALSE]
               [] OTHER -> @]
    /\ UNCHANGED << runtime, acc_pc, acc_addr, outgoing, oneshot, coord,
                    pending_connections, torrents, replied, sent_out >>
    /\ UNCHANGED connVars

\* Connection<Active>::send: message.write_to(write_stream).
Active_send(a) ==
    /\ Running
    /\ runtime = "tokio"
    /\ connections[a] # NoPeer
    /\ TotalOutgoing < MaxOutgoing
    /\ \E m \in OutMessages :
         /\ sent_out' = [sent_out EXCEPT ![a] = Append(@, m)]
         /\ \E w \in BOOLEAN :
              IF w THEN writes' = [writes EXCEPT ![a] = Append(@, m)]
                   ELSE UNCHANGED writes
    /\ UNCHANGED << runtime, pc, err, acc_pc, acc_addr, ih, pid, lens,
                    npayload, emitted, chan, outgoing, oneshot, approval,
                    coord, pending_connections, connections, torrents,
                    received, replied >>
    /\ UNCHANGED clientFrame

\* ------------------------------------------------------ specification ----
Next ==
    \/ \E a \in Addrs : PeerConnects(a)
    \/ \E a \in Addrs : listen_for_connections_accept(a)
    \/ listen_for_connections_opened
    \/ \E a \in Addrs : accept_handshake_prelude(a)
    \/ \E a \in Addrs : accept_handshake_reserved(a)
    \/ \E a \in Addrs : accept_handshake_info_hash(a)
    \/ \E a \in Addrs : accept_handshake_recv(a)
    \/ \E a \in Addrs : accept_handshake_peer_id(a)
    \/ \E a \in Addrs : accept_connection_connected(a)
    \/ \E a \in Addrs : accept_connection_len(a)
    \/ \E a \in Addrs : accept_connection_payload(a)
    \/ run_Opened
    \/ run_HandshakeInfoHash
    \/ run_Connected
    \/ run_todo
    \/ \E a \in Addrs : sender_send(a)
    \/ \E a \in Addrs : listen(a)
    \/ \E a \in Addrs : handshake_prelude(a)
    \/ \E a \in Addrs : handshake_reserved(a)
    \/ \E a \in Addrs : handshake_info_hash(a)
    \/ \E a \in Addrs : handshake_is_valid(a)
    \/ \E a \in Addrs : handshake_peer_id(a)
    \/ \E a \in Addrs : Peer_send(a)
    \/ \E a \in Addrs : Active_listen_len(a)
    \/ \E a \in Addrs : Active_listen_payload(a)
    \/ coordinator_HandshakeInfoHash
    \/ coordinator_Connected
    \/ coordinator_Message
    \/ \E a \in Addrs : Active_send(a)

Spec == Init /\ [][Next]_vars

\* Threads and tasks are scheduled fairly: a step that waits for nothing
\* but the scheduler, a channel that holds a value or a listener that holds
\* a connection is eventually taken.  What a peer sends, and when, is the
\* peer's choice: socket reads are never forced.
Scheduled ==
    \/ \E a \in Addrs : listen_for_connections_accept(a)
    \/ listen_for_connections_opened
    \/ \E a \in Addrs : accept_handshake_recv(a)
    \/ \E a \in Addrs : accept_connection_connected(a)
    \/ run_Opened
    \/ run_HandshakeInfoHash
    \/ run_Connected
    \/ run_todo
    \/ \E a \in Addrs : listen(a)
    \/ \E a \in Addrs : handshake_is_valid(a)
    \/ \E a \in Addrs : Peer_send(a)
    \/ coordinator_HandshakeInfoHash
    \/ coordinator_Connected
    \/ coordinator_Message

FairSpec == Spec /\ WF_vars(Scheduled)

TypeOK ==
    /\ runtime \in {"threads", "tokio"}
    /\ coord \in {"running", "panicked"}
    /\ pending_connections \subseteq Addrs
    /\ \A a \in Addrs : npayload[a] <= Len(lens[a])

\* ------------------------------------------------- derived history ----
Types(q) == [i \in DOMAIN q |-> q[i].type]
Has(q, type) == \E i \in DOMAIN q : q[i].type = type
Count(q, type) == Cardinality({i \in DOMAIN q : q[i].type = type})
Last(q) == q[Len(q)]

\* The events of one connection task in the order the channel delivers
\* them: those the coordinator took, then those still queued.
Delivery(a) ==
    SelectSeq(received[a], LAMBDA e : e.type # "Opened")
        \o SelectSeq(chan, LAMBDA e : e.from = a /\ e.type # "Opened")

\* The frames of a connection whose payload was read and decodes, in wire
\* order, as the Message events they stand for.
Decodes(f) == try_from(f.len, f.id) # "Err"
DecodedFrames(a) ==
    LET good == SelectSeq(SubSeq(lens[a], 1, npayload[a]), Decodes)
    IN [i \in DOMAIN good |-> Message(a, try_from(good[i].len, good[i].id))]

Pending(a) == pc[a] \in {"rd_prelude", "rd_reserved", "rd_infohash",
                          "await_approval", "rd_peerid"}
Approved(a) == approval[a] \in {"InfoHashOk", "true"}

\* ================================================================ claims ==
\* C1: in the incoming handshake, once the task has forwarded
\* HandshakeInfoHash and as long as it has no approval from the coordinator,
\* it has written nothing beyond the prelude and the reserved bytes, has
\* read no peer-id and has emitted neither Connected nor Message; an answer
\* that is not an approval ends the task with NotFound in that condition.
C1_ApprovalGatesHandshake ==
    \A a \in Addrs :
        /\ (Has(emitted[a], "HandshakeInfoHash") /\ ~Approved(a)) =>
              /\ writes[a] = << "PRELUDE", "RESERVED" >>
              /\ pid[a] = "none"
              /\ ~Has(emitted[a], "Connected")
              /\ ~Has(emitted[a], "Message")
        /\ (approval[a] # "none" /\ ~Approved(a)) =>
              /\ pc[a] = "failed"
              /\ err[a] = "NotFound"

C1_Witness ==
    \E a \in Addrs :
        /\ runtime = "threads"
        /\ approval[a] = "Close"
        /\ pc[a] = "failed"
        /\ Types(emitted[a]) = << "HandshakeInfoHash" >>

\* C2: every HandshakeInfoHash event the coordinator has processed was
\* answered with the decision "the torrent table contains the info-hash".
C2_EveryInfoHashAnswered ==
    \A a \in Addrs :
        Has(received[a], "HandshakeInfoHash") =>
            replied[a] = (IF ih[a] \in DOMAIN torrents
                          THEN "InfoHashOk" ELSE "Close")

\* C3: a frame whose length field exceeds 16393 is the last one of its
\* connection: the task ended with an error, did not read its payload and
\* sent no Message for it; a frame of at most 16393 passes the size check.
C3_FrameSizeLimit ==
    \A a \in Addrs : \A i \in DOMAIN lens[a] :
        /\ lens[a][i].len > 16393 =>
              /\ i = Len(lens[a])
              /\ pc[a] = "failed"
              /\ err[a] = "Unsupported"
              /\ npayload[a] = i - 1
              /\ Count(emitted[a], "Message") <= i - 1
        /\ lens[a][i].len <= 16393 =>
              ~(i = Len(lens[a]) /\ err[a] = "Unsupported")

C3_Witness ==
    \E a \in Addrs :
        /\ Len(lens[a]) = 2
        /\ lens[a][1].len = 16393
        /\ lens[a][2].len = 16394
        /\ npayload[a] = 1
        /\ pc[a] = "failed"

\* C4: a connection task that stopped on an I/O failure or a protocol
\* violation has sent exactly one Closed event.
C4_OneClosedPerFailure ==
    \A a \in Addrs :
        pc[a] = "failed" => Count(emitted[a], "Closed") = 1

\* C5: the coordinator loop never panics or exits.
C5_CoordinatorKeepsRunning == coord = "running"

\* C6: once the coordinator has processed Connected{info_hash, peer_id}
\* from an address, the torrent under info_hash holds the peer_id in peers
\* and maps the address to it in peer_connections.
C6_ConnectedRegistersPeer ==
    \A a \in Addrs : \A i \in DOMAIN received[a] :
        received[a][i].type = "Connected" =>
            LET h == received[a][i].info_hash
                p == received[a][i].peer_id
            IN /\ h \in DOMAIN torrents
               /\ p \in torrents[h].peers
               /\ << a, p >> \in torrents[h].peer_connections

\* C7: the step in which the coordinator takes Choke, Unchoke, Interested
\* or NotInterested of an Active peer sets that peer's peer_choking or
\* peer_interested accordingly and changes no other flag of any peer.
C7_Effect(a) ==
    LET m == Last(received'[a]).message
        old == connections[a]
        new == connections'[a]
    IN /\ new.peer_choking = (CASE m = "Choke" -> TRUE
                                 [] m = "Unchoke" -> FALSE
                                 [] OTHER -> old.peer_choking)
       /\ new.peer_interested = (CASE m = "Interested" -> TRUE
                                    [] m = "NotInterested" -> FALSE
                                    [] OTHER -> old.peer_interested)
       /\ new.am_choking = old.am_choking
       /\ new.am_interested = old.am_interested
       /\ \A b \in Addrs \ {a} : connections'[b] = connections[b]

C7_ChokeInterestFlags ==
    [][\A a \in Addrs :
          ( /\ Len(received'[a]) = Len(received[a]) + 1
            /\ Last(received'[a]).type = "Message"
            /\ Last(received'[a]).message \in
                  {"Choke", "Unchoke", "Interested", "NotInterested"}
            /\ connections[a] # NoPeer ) => C7_Effect(a)]_vars

\* C8: the channel delivers the events of one connection task as
\* HandshakeInfoHash, then Connected, then the Message events of its
\* decodable frames in wire order, none twice and none out of place.
C8_PerConnectionOrder ==
    \A a \in Addrs :
        LET d == Delivery(a)
        IN /\ \A i \in DOMAIN d :
                /\ d[i].type = "HandshakeInfoHash" => i = 1
                /\ d[i].type = "Connected" => i = 2
                /\ d[i].type = "Message" => i >= 3
                /\ i = 1 => d[i].type = "HandshakeInfoHash"
                /\ i = 2 => d[i].type = "Connected"
           /\ SelectSeq(d, LAMBDA e : e.type = "Message") = DecodedFrames(a)

C8_Witness ==
    \E a \in Addrs :
        /\ Len(Delivery(a)) = 4
        /\ Delivery(a)[3].message = "Unchoke"
        /\ Delivery(a)[4].message = "Interested"
        /\ lens[a][1].id = PEERMESSAGE_UNCHOKE

\* C9: every PeerMessage put on a connection's Outgoing channel is
\* eventually written to the peer's socket, and the messages written are
\* the messages sent, in the order they were sent (unless the connection
\* task ended on an error or the process died first).
WrittenMessages(a) == SelectSeq(writes[a], LAMBDA w : w \in OutMessages)

C9_OutgoingEventuallyWritten ==
    \A a \in Addrs :
        (\E i \in DOMAIN outgoing[a] : outgoing[a][i].kind = "Message")
            ~> \/ WrittenMessages(a) = sent_out[a]
               \/ pc[a] = "failed"
               \/ coord = "panicked"

\* C40: in the read loop, a frame within the size limit whose payload does
\* not decode adds no Message event and leaves the task reading the next
\* length; a frame that decodes adds its Message event after the earlier
\* ones, so that the Message events of a task are its decodable frames in
\* wire order.
MessagesEmitted(a) == SelectSeq(emitted[a], LAMBDA e : e.type = "Message")

C40_PayloadRead(a) ==
    LET f == lens[a][Len(lens[a])]
    IN /\ pc'[a] = "rd_len"
       /\ err'[a] = err[a]
       /\ IF Decodes(f)
          THEN emitted'[a] =
                   Append(emitted[a], Message(a, try_from(f.len, f.id)))
          ELSE emitted'[a] = emitted[a] /\ chan' = chan

C40_UndecodableFrameSkipped ==
    /\ [](\A a \in Addrs : MessagesEmitted(a) = DecodedFrames(a))
    /\ [][\A a \in Addrs :
            npayload'[a] = npayload[a] + 1 => C40_PayloadRead(a)]_vars

C40_Witness ==
    \E a \in Addrs :
        /\ npayload[a] = 2
        /\ ~Decodes(lens[a][1])
        /\ Decodes(lens[a][2])
        /\ MessagesEmitted(a) =
              << Message(a, try_from(lens[a][2].len, lens[a][2].id)) >>

\* The coordinator holds nothing under an address.
NoEntry(a) ==
    /\ a \notin pending_connections
    /\ connections[a] = NoPeer
    /\ \A h \in DOMAIN torrents :
          \A e \in torrents[h].peer_connections : e[1] # a

\* C36: after a connection's task has ended on an error, the coordinator
\* (while it runs) eventually holds no entry for the connection's address
\* in pending_connections, in connections or in a torrent's peer maps.
C36_EndedTaskEntriesRemoved ==
    \A a \in Addrs :
        pc[a] = "failed" ~> (NoEntry(a) \/ coord = "panicked")

\* C10: while a handshake is pending and another peer waits in the
\* listener's backlog, the acceptor is able to accept it (or is in its own
\* step of registering the connection it just accepted).
C10_AcceptorNotBlocked ==
    (\E a, b \in Addrs : Pending(a) /\ pc[b] = "queued") =>
        \/ acc_pc = "send_opened"
        \/ ENABLED (\E b \in Addrs : listen_for_connections_accept(b) \/ listen(b))

\* =============================================================== tracker ==
\* The announce pipeline of the tracker: tracker/src/lib.rs and
\* tracker/src/announce.rs over the registry of src/tracker/torrent.rs and
\* the Request and Peer of src/schema/tracker.  A query string is the
\* sequence of its key=value clauses; a 20-byte value, a key and an IP
\* address are opaque tokens; a number travels as its decimal numeral.
\* The requirecrypto filter of the peer selection only removes candidates
\* and is left out: no request of the model asks for it.

\* ------------------------------------------------------------- bounds ----
MaxTicks == 2         \* how often the clock advances
MaxDownloaded == 2    \* completed announces per torrent

\* ---------------------------------------------------------- constants ----
timeout_interval == 900        \* Args::timeout_interval, default_value_t
EXPIRY_SECS == 3600            \* Peers::expiry, Duration::from_secs
MAX_PEER_COUNT == 50           \* announce, clamp(0, 50)
RESPONSE_INTERVAL == 60        \* announce, SuccessResponse.interval

\* The clock advances in steps of two timeout intervals.
ClockStep == 2 * timeout_interval

\* ------------------------------------------------------------ domains ----
TrackerHash == "H1"            \* the info-hash the clients announce
REMOTE_IP == "10.0.0.1"        \* req.remote() of every client
Ports == {"6881", "6882"}
Lefts == {"0", "1"}
Events == {"started", "completed", "stopped"}
Numwants == {"0", "1", "80"}

\* The numerals a query carries and u64 / u16 FromStr of each.
Numerals == ("0" :> 0) @@ ("1" :> 1) @@ ("80" :> 80)
            @@ ("6881" :> 6881) @@ ("6882" :> 6882)
parse_number(value) ==
    IF value \in DOMAIN Numerals THEN Some(Numerals[value]) ELSE None

\* common/src/lib.rs parse_qs_to_bytes: the 20 bytes of a value, or the
\* error of a value that is too short.
parse_qs_to_bytes(value) ==
    IF value \in {TrackerHash} \cup PeerIds
    THEN [ok |-> Some(value), err |-> None]
    ELSE [ok |-> None, err |-> Some("Too few characters")]

\* impl FromStr for Event
Event_from_str(value) ==
    IF value \in Events
    THEN [ok |-> Some(value), err |-> None]
    ELSE [ok |-> None, err |-> Some("Unknown event")]

\* ------------------------------------------------ Request: FromStr ----
RequiredFields == {"info_hash", "peer_id", "port", "uploaded", "downloaded",
                   "left"}

\* The locals of from_str before the loop.
from_str_locals ==
    [ info_hash |-> None, peer_id |-> None, port |-> None, uploaded |-> None,
      downloaded |-> None, left |-> None, event |-> None, numwant |-> None,
      key |-> None, err |-> None ]

\* One turn of the loop: the match on clause_key.  A clause without '='
\* and an unknown key are skipped; an invalid value returns its error.
from_str_clause(acc, clause) ==
    IF Len(clause) < 2 THEN acc
    ELSE LET clause_key == clause[1]
             value == clause[2]
             number == parse_number(value)
             bytes == parse_qs_to_bytes(value)
             Invalid(name) == "Invalid \"" \o name \o "\" value"
         IN CASE clause_key = "info_hash" ->
                   IF bytes.ok = None THEN [acc EXCEPT !.err = bytes.err]
                   ELSE [acc EXCEPT !.info_hash = bytes.ok]
              [] clause_key = "peer_id" ->
                   IF bytes.ok = None THEN [acc EXCEPT !.err = bytes.err]
                   ELSE [acc EXCEPT !.peer_id = bytes.ok]
              [] clause_key \in {"port", "uploaded", "downloaded", "left",
                                 "numwant"} ->
                   IF number = None
                   THEN [acc EXCEPT !.err = Some(Invalid(clause_key))]
                   ELSE [acc EXCEPT ![clause_key] = number]
              [] clause_key = "event" ->
                   IF Event_from_str(value).ok = None
                   THEN [acc EXCEPT !.err = Event_from_str(value).err]
                   ELSE [acc EXCEPT !.event = Some(value)]
              [] clause_key = "key" -> [acc EXCEPT !.key = Some(value)]
              [] OTHER -> acc

RECURSIVE from_str_loop(_, _)
from_str_loop(input, acc) ==
    IF input = << >> \/ acc.err # None THEN acc
    ELSE from_str_loop(Tail(input), from_str_clause(acc, Head(input)))

\* The check after the loop: Ok(Request) or Err(text).
from_str_result(l) ==
    IF l.err # None THEN [ok |-> None, err |-> l.err]
    ELSE IF /\ l.info_hash # None /\ l.peer_id # None /\ l.port # None
            /\ l.uploaded # None /\ l.downloaded # None /\ l.left # None
    THEN [ok |-> Some([ info_hash |-> l.info_hash[1],
                        peer_id |-> l.peer_id[1],
                        port |-> l.port[1],
                        uploaded |-> l.uploaded[1],
                        downloaded |-> l.downloaded[1],
                        left |-> l.left[1],
                        event |-> l.event,
                        numwant |-> l.numwant,
                        key |-> l.key ]),
          err |-> None]
    ELSE [ok |-> None, err |-> Some("Missing one or more required fields.")]

\* impl FromStr for Request; the mutant takes a missing uploaded for 0.
from_str_uploaded_defaults(input) ==
    LET l == from_str_loop(input, from_str_locals)
    IN from_str_result([l EXCEPT !.uploaded = IF @ = None THEN Some(0) ELSE @])

from_str(input) == from_str_result(from_str_loop(input, from_str_locals))

\* --------------------------------------------------- tracker::Peer ----
\* Request::as_peer
as_peer(request, origin_ip, instant) ==
    [ last_seen |-> instant,
      peer_id |-> Some(request.peer_id),
      addr |-> << origin_ip, request.port >>,
      uploaded |-> Some(request.uploaded),
      downloaded |-> Some(request.downloaded),
      left |-> Some(request.left),
      key |-> request.key ]

\* impl PartialEq for Peer; the mutant compares the addresses only.
Peer_eq_by_addr(a, b) == a.addr = b.addr

Peer_eq(a, b) ==
    IF a.peer_id # None /\ b.peer_id # None
    THEN a.peer_id = b.peer_id
    ELSE a.addr = b.addr

\* impl Hash for Peer: what is fed to the hasher.
Peer_hash(p) ==
    [ peer_id |-> p.peer_id,
      key |-> p.key,
      addr |-> IF p.key # None THEN None ELSE Some(p.addr) ]

\* ----------------------------------------------------------- Peers ----
\* HashSet::find: the entries a lookup of peer can hit.  The table
\* compares a 7-bit tag of the hash before it calls eq, so an entry that
\* is equal but hashes differently is hit only when the tags collide; an
\* entry with the hash of peer is taken to be probed first.
Peers_find(peers, peer, collide) ==
    LET same_hash == { e \in peers : Peer_eq(e, peer)
                                      /\ Peer_hash(e) = Peer_hash(peer) }
    IN IF same_hash # {} THEN same_hash
       ELSE IF collide THEN { e \in peers : Peer_eq(e, peer) }
       ELSE {}

\* Peers::remove: the sets it can leave.
Peers_remove(peers, peer, collide) ==
    LET hit == Peers_find(peers, peer, collide)
    IN IF hit = {} THEN {peers} ELSE { peers \ {e} : e \in hit }

\* Peers::replace: the sets it can leave.
Peers_replace(peers, peer, collide) ==
    LET hit == Peers_find(peers, peer, collide)
    IN IF hit = {} THEN {peers \cup {peer}}
       ELSE { (peers \ {e}) \cup {peer} : e \in hit }

\* Peers::expiry
expiry(instant) == instant - EXPIRY_SECS

Min(a, b) == IF a <= b THEN a ELSE b

\* Peers::get_multiple: the selections choose_multiple can return (the
\* order of the Vec is left out).  The mutant returns every candidate.
get_multiple_uncapped(peers, count, exclude, instant) ==
    { { p \in peers : ~Peer_eq(p, exclude) /\ p.last_seen > expiry(instant) } }

get_multiple(peers, count, exclude, instant) ==
    LET eligible == { p \in peers :
                        ~Peer_eq(p, exclude) /\ p.last_seen > expiry(instant) }
    IN { chosen \in SUBSET eligible :
            Cardinality(chosen) = Min(count, Cardinality(eligible)) }

\* Peers::complete_incomplete; the mutant counts every peer as complete.
complete_incomplete_all_complete(peers) == << Cardinality(peers), 0 >>

complete_incomplete(peers) ==
    << Cardinality({ p \in peers : p.left = Some(0) }),
       Cardinality({ p \in peers : p.left # Some(0) }) >>

\* ------------------------------------------------ Torrent, Torrents ----
\* Torrent::new
Torrent_new(info_hash) ==
    [ info_hash |-> info_hash, peers |-> {}, complete |-> 0,
      incomplete |-> 0, downloaded |-> 0 ]

\* Torrents::get_or_insert
get_or_insert(registry, info_hash) ==
    IF info_hash \in DOMAIN registry THEN registry
    ELSE (info_hash :> Torrent_new(info_hash)) @@ registry

\* Torrent::update_counts
update_counts(torrent) ==
    [torrent EXCEPT !.complete = complete_incomplete(torrent.peers)[1],
                    !.incomplete = complete_incomplete(torrent.peers)[2]]

\* ------------------------------------------------------- announce ----
\* announce, lines 10 to 18: the torrent with the announcer removed or
\* replaced.
announce_peers(torrent, request, peer, collide) ==
    IF request.event = Some("stopped")
    THEN { [torrent EXCEPT !.peers = ps] :
              ps \in Peers_remove(torrent.peers, peer, collide) }
    ELSE { [torrent EXCEPT !.peers = ps] :
              ps \in Peers_replace(torrent.peers, peer, collide) }

\* announce, lines 20 to 22; the mutant counts every announce.
announce_downloaded_every(torrent, request) ==
    [torrent EXCEPT !.downloaded = @ + 1]

announce_downloaded(torrent, request) ==
    IF request.event = Some("completed")
    THEN [torrent EXCEPT !.downloaded = @ + 1]
    ELSE torrent

\* announce, lines 26 to 30: usize::MAX.clamp(0, 50) is 50.
peer_count(request) ==
    IF request.numwant = None THEN MAX_PEER_COUNT
    ELSE Min(request.numwant[1], MAX_PEER_COUNT)

SuccessResponse(torrent, peers) ==
    [ kind |-> "Success", interval |-> RESPONSE_INTERVAL,
      complete |-> torrent.complete, incomplete |-> torrent.incomplete,
      peers |-> peers ]

FailureResponse(failure_reason) ==
    [ kind |-> "Failure", failure_reason |-> failure_reason ]

\* announce, lines 32 to 48: the responses it can build.
announce_responses(torrent, request, peer, instant) ==
    { SuccessResponse(torrent, chosen) :
         chosen \in get_multiple(torrent.peers, peer_count(request), peer,
                                 instant) }

\* announce as a whole: the registries it can leave and the response that
\* goes with each.
announce(registry, request, remote_ip, instant) ==
    LET info_hash == request.info_hash
        inserted == get_or_insert(registry, info_hash)
        peer == as_peer(request, remote_ip, instant)
        torrents_after ==
            UNION { { update_counts(announce_downloaded(t, request)) :
                        t \in announce_peers(inserted[info_hash], request,
                                             peer, collide) } :
                    collide \in BOOLEAN }
    IN UNION { { [ registry |-> [inserted EXCEPT ![info_hash] = t],
                   response |-> r ] :
                 r \in announce_responses(t, request, peer, instant) } :
               t \in torrents_after }

\* ------------------------------------------------------- requests ----
\* What a client puts in its announce URL.  Client p1 sends no key and may
\* move to another port between announces; client p2 sends the key k1 and
\* stays on its port.
KeyOf(peer_id) == IF peer_id = "p2" THEN Some("k1") ELSE None
PortsOf(peer_id) == IF peer_id = "p2" THEN {"6881"} ELSE Ports

Optional(name, value) == IF value = None THEN << >> ELSE << << name, value[1] >> >>

QueryOf(peer_id, port, left, event, numwant) ==
    << << "info_hash", TrackerHash >>, << "peer_id", peer_id >>,
       << "port", port >>, << "uploaded", "0" >>, << "downloaded", "0" >>,
       << "left", left >> >>
    \o Optional("event", event) \o Optional("numwant", numwant)
    \o Optional("key", KeyOf(peer_id))

OptionOf(S) == {None} \cup { Some(x) : x \in S }

\* Plain and completed announces of every client from each of its ports
\* with either left, stopped announces, event=started and numwant.
WellFormedQueries ==
    { QueryOf(p[1], p[2], left, event, None) :
        p \in { q \in PeerIds \X Ports : q[2] \in PortsOf(q[1]) },
        left \in Lefts, event \in OptionOf({"completed"}) }
    \cup { QueryOf(p[1], p[2], "1", Some("stopped"), None) :
             p \in { q \in PeerIds \X Ports : q[2] \in PortsOf(q[1]) } }
    \cup { QueryOf("p2", "6881", "1", None, Some(n)) : n \in Numwants }
    \cup { QueryOf("p1", "6881", "1", Some("started"), Some("1")) }

Without(input, name) == SelectSeq(input, LAMBDA clause : clause[1] # name)

\* Queries that lack one required field, and one with a port that is no
\* number.
IncompleteQueries ==
    { Without(QueryOf("p1", "6881", "1", None, None), name) :
        name \in RequiredFields }
    \cup { Without(QueryOf("p2", "6881", "0", Some("completed"), None), "left") }

InvalidQueries ==
    { << << "info_hash", TrackerHash >>, << "peer_id", "p1" >>,
         << "port", "x" >>, << "uploaded", "0" >> >> }

\* A request: the remote address tide reports, if it parses, and the
\* query string.
Http(remote, input) == [remote |-> remote, input |-> input]

Requests ==
    { Http(Some(REMOTE_IP), input) :
        input \in WellFormedQueries \cup IncompleteQueries \cup InvalidQueries }
    \cup { Http(None, QueryOf("p1", "6881", "1", None, None)),
           Http(None, Without(QueryOf("p1", "6881", "1", None, None), "left")) }

Downloaded(registry) ==
    IF TrackerHash \in DOMAIN registry THEN registry[TrackerHash].downloaded ELSE 0

\* ------------------------------------- one request after the other ----
\* announce_route with announce, from the request to the response.
announce_route(http) ==
    /\ query' = http
    /\ IF http.remote = None
       THEN /\ response' = FailureResponse("Missing remote address")
            /\ UNCHANGED TORRENTS
       ELSE LET parsed == from_str(http.input)
            IN IF parsed.ok = None
               THEN /\ response' = FailureResponse(parsed.err[1])
                    /\ UNCHANGED TORRENTS
               ELSE /\ parsed.ok[1].event = Some("completed") =>
                          Downloaded(TORRENTS) < MaxDownloaded
                    /\ \E out \in announce(TORRENTS, parsed.ok[1],
                                           http.remote[1], now) :
                          /\ TORRENTS' = out.registry
                          /\ response' = out.response
    /\ UNCHANGED << now, handlerVars, peerVars, clientVars,
                    codecVars, announcerVars, dialVars >>

\* Time passes.
ClockAdvances ==
    /\ now < MaxTicks * ClockStep
    /\ now' = now + ClockStep
    /\ UNCHANGED << TORRENTS, query, response, handlerVars, peerVars,
                    clientVars,
                    codecVars, announcerVars, dialVars >>

TrackerInit == Init /\ runtime = "threads"

TrackerNext ==
    \/ \E http \in Requests : announce_route(http)
    \/ ClockAdvances

TrackerSpec == TrackerInit /\ [][TrackerNext]_vars

\* ------------------------------------------------- derived history ----
\* The peer set of the announced torrent.
SwarmOf(registry) ==
    IF TrackerHash \in DOMAIN registry THEN registry[TrackerHash].peers ELSE {}
Swarm == SwarmOf(TORRENTS)

\* The Request an answer was given to, if its query parsed.
RequestOf(http) == IF http.remote = None THEN None ELSE from_str(http.input).ok
LastRequest == RequestOf(query)

\* The entries of a peer set under a peer_id.
EntriesOf(peers, peer_id) == { e \in peers : e.peer_id = Some(peer_id) }

\* C11: the swarm of an info-hash holds at most one entry per peer_id,
\* whatever announces it has served: an announce from a peer_id that is in
\* the swarm replaces that entry instead of adding a second one.
C11_OneEntryPerPeerId ==
    \A h \in DOMAIN TORRENTS : \A p \in PeerIds :
        Cardinality(EntriesOf(TORRENTS[h].peers, p)) <= 1

\* C12: when the last announce served carried event=stopped, the swarm
\* holds no entry of the announcing peer.
C12_StoppedLeavesNoEntry ==
    (LastRequest # None /\ LastRequest[1].event = Some("stopped")) =>
        EntriesOf(Swarm, LastRequest[1].peer_id) = {}

\* ------------------------------------------- Peer values compared ----
\* The Peer values the program builds: with a peer_id (as_peer, the
\* dictionary form of a response) or without (the compact form), with or
\* without key.
PeerValues ==
    { [ last_seen |-> 0, peer_id |-> peer_id, addr |-> << REMOTE_IP, port >>,
        uploaded |-> None, downloaded |-> None, left |-> None, key |-> key ] :
        peer_id \in OptionOf(PeerIds), port \in {6881, 6882},
        key \in OptionOf({"k1"}) }

\* peer_a == peer_b
Peers_compared ==
    /\ eq_result = None
    /\ eq_result' = Some(Peer_eq(peer_a, peer_b))
    /\ UNCHANGED << peer_a, peer_b, trackerVars, handlerVars, clientVars,
                    codecVars, announcerVars, dialVars >>

PeerInit ==
    /\ ClientStart /\ runtime = "threads"
    /\ TrackerStart /\ HandlersStart /\ CodecStart /\ AnnouncerStart /\ DialStart
    /\ peer_a \in PeerValues
    /\ peer_b \in PeerValues
    /\ eq_result = None

PeerNext == Peers_compared

PeerSpec == PeerInit /\ [][PeerNext]_vars

\* C13: two Peer values compare equal exactly when both have a peer_id and
\* the peer_ids match, or neither has one and the socket addresses match.
C13_EqualByIdOrElseByAddr ==
    eq_result # None =>
        (eq_result[1] <=>
            \/ /\ peer_a.peer_id # None /\ peer_b.peer_id # None
               /\ peer_a.peer_id = peer_b.peer_id
            \/ /\ peer_a.peer_id = None /\ peer_b.peer_id = None
               /\ peer_a.addr = peer_b.addr)

\* numwant if given, else 50.
Wanted(request) == IF request.numwant = None THEN 50 ELSE request.numwant[1]

\* C14 as stated: a success response holds at most
\* min(numwant or 50, 50, |swarm| - 1) peers (none for an empty swarm).
C14_AtMostSwarmLessOne ==
    (response.kind = "Success" /\ LastRequest # None) =>
        Cardinality(response.peers)
            <= Min(Min(Wanted(LastRequest[1]), 50),
                   IF Swarm = {} THEN 0 ELSE Cardinality(Swarm) - 1)

\* C14 as amended: a success response holds at most min(numwant or 50, 50)
\* peers and at most as many as the swarm has entries under a peer_id other
\* than the announcer's (after event=stopped the announcer has no entry, and
\* the whole swarm may be returned).
C14_AtMostTheOthers ==
    (response.kind = "Success" /\ LastRequest # None) =>
        Cardinality(response.peers)
            <= Min(Min(Wanted(LastRequest[1]), 50),
                   Cardinality(Swarm \ EntriesOf(Swarm, LastRequest[1].peer_id)))

C14_Witness ==
    /\ response.kind = "Success"
    /\ LastRequest # None
    /\ LastRequest[1].numwant = Some(1)
    /\ Cardinality(response.peers) = 1
    /\ Cardinality(Swarm \ EntriesOf(Swarm, LastRequest[1].peer_id)) = 2

\* C15: the peer list of a success response holds no entry under the
\* announcer's peer_id, whatever the swarm holds and whatever address the
\* announcer used before.
C15_AnnouncerNotInResponse ==
    (response.kind = "Success" /\ LastRequest # None) =>
        EntriesOf(response.peers, LastRequest[1].peer_id) = {}

C15_Witness ==
    /\ response.kind = "Success"
    /\ LastRequest # None
    /\ response.peers # {}
    /\ \E e \in EntriesOf(Swarm, LastRequest[1].peer_id) :
          e.addr # << REMOTE_IP, LastRequest[1].port >>

\* C16: no response lists a peer whose last announce is older than
\* timeout_interval.
C16_StalePeersNotListed ==
    [][(now' = now /\ response'.kind = "Success") =>
          \A p \in response'.peers : now' - p.last_seen <= timeout_interval]_vars

\* C17: an announce with event=completed raises the torrent's downloaded
\* by exactly 1 and any other announce leaves it as it is; after a completed
\* announce with left = 0 the announcer's entry is among those complete
\* counts.
C17_DownloadedCountsCompleted ==
    [][now' = now =>
          LET request == RequestOf(query')
              completed == /\ request # None
                           /\ request[1].event = Some("completed")
          IN /\ Downloaded(TORRENTS') =
                   Downloaded(TORRENTS) + (IF completed THEN 1 ELSE 0)
             /\ (completed /\ request[1].left = 0) =>
                   /\ \E e \in EntriesOf(SwarmOf(TORRENTS'), request[1].peer_id) :
                         e.left = Some(0) /\ e.last_seen = now'
                   /\ TORRENTS'[TrackerHash].complete =
                         Cardinality({ e \in SwarmOf(TORRENTS') :
                                         e.left = Some(0) })]_vars

C17_Witness ==
    /\ Downloaded(TORRENTS) = 2
    /\ \A p \in PeerIds : \E e \in EntriesOf(Swarm, p) : e.left = Some(0)
    /\ Cardinality(Swarm) = 2
    /\ TORRENTS[TrackerHash].complete = 2
    /\ TORRENTS[TrackerHash].incomplete = 0
    /\ LastRequest # None
    /\ LastRequest[1].event = Some("completed")

\* C18: complete is the number of peers of the torrent's peer set with
\* left == 0, incomplete the number of all its other peers, and the two add
\* up to the size of the peer set.
C18_CountsMatchPeerSet ==
    \A h \in DOMAIN TORRENTS :
        LET t == TORRENTS[h]
        IN /\ t.complete = Cardinality({ e \in t.peers : e.left = Some(0) })
           /\ t.incomplete = Cardinality({ e \in t.peers : e.left # Some(0) })
           /\ t.complete + t.incomplete = Cardinality(t.peers)

C18_Witness ==
    /\ LastRequest # None
    /\ LastRequest[1].event = Some("stopped")
    /\ EntriesOf(Swarm, LastRequest[1].peer_id) = {}
    /\ TORRENTS[TrackerHash].complete = 1
    /\ TORRENTS[TrackerHash].incomplete = 1

\* The keys of a query; whether every value of a known key parses.
Keys(input) == { input[i][1] : i \in DOMAIN input }
ValuesParse(input) ==
    \A i \in DOMAIN input :
        LET k == input[i][1]
            v == input[i][2]
        IN /\ k = "info_hash" => v = TrackerHash
           /\ k = "peer_id" => v \in PeerIds
           /\ k \in {"port", "uploaded", "downloaded", "left", "numwant"} =>
                 v \in {"0", "1", "80", "6881", "6882"}
           /\ k = "event" => v \in {"started", "completed", "stopped"}

ConcurrentQueries ==
    { QueryOf(p, "6881", "1", event, None) :
        p \in PeerIds, event \in OptionOf({"stopped"}) }
    \cup { QueryOf(p, "6881", "0", Some("completed"), None) : p \in PeerIds }
    \cup { Without(QueryOf("p1", "6881", "1", None, None), "left") }

InCriticalSection(h) == h_pc[h] \in {"peers", "counts", "select"}

\* Completed announces parsed and not yet counted.
PendingCompleted ==
    Cardinality({ h \in Handlers : /\ h_pc[h] \in {"lock", "peers"}
                                   /\ h_req[h][1].event = Some("completed") })

\* announce_route up to the call of announce: parse the query.
announce_route_parse(h, input) ==
    /\ h_pc[h] = "idle"
    /\ LET parsed == from_str(input)
       IN IF parsed.ok = None
          THEN /\ h_resp' = [h_resp EXCEPT ![h] = FailureResponse(parsed.err[1])]
               /\ h_pc' = [h_pc EXCEPT ![h] = "done"]
               /\ UNCHANGED h_req
          ELSE /\ parsed.ok[1].event = Some("completed") =>
                     Downloaded(TORRENTS) + PendingCompleted < MaxDownloaded
               /\ h_req' = [h_req EXCEPT ![h] = parsed.ok]
               /\ h_pc' = [h_pc EXCEPT ![h] = "lock"]
               /\ UNCHANGED h_resp
    /\ UNCHANGED << mutex, serial, expected, trackerVars, peerVars, clientVars,
                    codecVars, announcerVars, dialVars >>

\* Mutex::lock returns when nobody holds the guard; the mutant returns at
\* once.
Mutex_lock_unguarded(m) == TRUE

Mutex_lock(m) == m = None

\* announce, line 9: let mut torrents = super::torrents().  From here on
\* the order of the critical sections is fixed: serial and expected say
\* what this announce does when it runs alone, after those before it.
torrents_lock(h) ==
    /\ h_pc[h] = "lock"
    /\ Mutex_lock(mutex)
    /\ mutex' = Some(h)
    /\ h_pc' = [h_pc EXCEPT ![h] = "peers"]
    /\ \E out \in announce(serial, h_req[h][1], REMOTE_IP, now) :
          /\ serial' = out.registry
          /\ expected' = [expected EXCEPT ![h] = out.response]
    /\ UNCHANGED << h_req, h_resp, trackerVars, peerVars, clientVars,
                    codecVars, announcerVars, dialVars >>

\* announce, lines 10 to 22: get_or_insert, as_peer, remove or replace,
\* downloaded += 1.
announce_update(h) ==
    /\ h_pc[h] = "peers"
    /\ LET request == h_req[h][1]
           inserted == get_or_insert(TORRENTS, request.info_hash)
           peer == as_peer(request, REMOTE_IP, now)
       IN \E collide \in BOOLEAN :
            \E t \in announce_peers(inserted[request.info_hash], request,
                                    peer, collide) :
               TORRENTS' = [inserted EXCEPT ![request.info_hash] =
                                announce_downloaded(t, request)]
    /\ h_pc' = [h_pc EXCEPT ![h] = "counts"]
    /\ UNCHANGED << now, query, response, h_req, h_resp, mutex, serial,
                    expected, peerVars, clientVars,
                    codecVars, announcerVars, dialVars >>

\* announce, line 24: torrent.update_counts().
announce_update_counts(h) ==
    /\ h_pc[h] = "counts"
    /\ TORRENTS' = [TORRENTS EXCEPT ![h_req[h][1].info_hash] = update_counts(@)]
    /\ h_pc' = [h_pc EXCEPT ![h] = "select"]
    /\ UNCHANGED << now, query, response, h_req, h_resp, mutex, serial,
                    expected, peerVars, clientVars,
                    codecVars, announcerVars, dialVars >>

\* announce, lines 26 to 49: select the peers, build the response, drop
\* the guard.
announce_respond(h) ==
    /\ h_pc[h] = "select"
    /\ LET request == h_req[h][1]
       IN \E r \in announce_responses(TORRENTS[request.info_hash], request,
                                      as_peer(request, REMOTE_IP, now), now) :
             h_resp' = [h_resp EXCEPT ![h] = r]
    /\ mutex' = None
    /\ h_pc' = [h_pc EXCEPT ![h] = "done"]
    /\ UNCHANGED << h_req, serial, expected, trackerVars, peerVars, clientVars,
                    codecVars, announcerVars, dialVars >>

\* announce_route after announce: println!("{}", torrents()) takes and
\* drops the guard, then the response is returned.
announce_route_return(h) ==
    /\ h_pc[h] = "done"
    /\ Mutex_lock(mutex)
    /\ h_pc' = [h_pc EXCEPT ![h] = "idle"]
    /\ h_req' = [h_req EXCEPT ![h] = None]
    /\ h_resp' = [h_resp EXCEPT ![h] = NoResponse]
    /\ expected' = [expected EXCEPT ![h] = NoResponse]
    /\ UNCHANGED << mutex, serial, trackerVars, peerVars, clientVars,
                    codecVars, announcerVars, dialVars >>

ConcurrentInit == Init /\ runtime = "threads"

ConcurrentNext ==
    \/ \E h \in Handlers : \E input \in ConcurrentQueries :
          announce_route_parse(h, input)
    \/ \E h \in Handlers : torrents_lock(h)
    \/ \E h \in Handlers : announce_update(h)
    \/ \E h \in Handlers : announce_update_counts(h)
    \/ \E h \in Handlers : announce_respond(h)
    \/ \E h \in Handlers : announce_route_return(h)

ConcurrentSpec == ConcurrentInit /\ [][ConcurrentNext]_vars

\* A task that can run does run; a task that waits for the Mutex gets it
\* if it is free again and again.  When requests arrive is up to the
\* clients.
ConcurrentFairSpec ==
    /\ ConcurrentSpec
    /\ \A h \in Handlers :
          /\ SF_vars(torrents_lock(h))
          /\ SF_vars(announce_route_return(h))
          /\ WF_vars(announce_update(h))
          /\ WF_vars(announce_update_counts(h))
          /\ WF_vars(announce_respond(h))

\* C19: at most one handler is between taking the guard and dropping it;
\* whenever the guard is free the registry is what the announces give when
\* run one at a time in the order the guard was taken, and every response
\* is the one its announce gives in that order; a handler that waits for
\* the guard gets it.
C19_Serialized ==
    /\ \A g, h \in Handlers :
          (InCriticalSection(g) /\ InCriticalSection(h)) => g = h
    /\ \A h \in Handlers : InCriticalSection(h) <=> mutex = Some(h)
    /\ mutex = None => TORRENTS = serial
    /\ \A h \in Handlers :
          (h_pc[h] = "done" /\ h_req[h] # None) => h_resp[h] = expected[h]

HashLen == 2    \* N of parse_qs_to_bytes: the bytes of an InfoHash / PeerId

\* char::to_digit
DigitValue ==
    ("0" :> 0) @@ ("1" :> 1) @@ ("2" :> 2) @@ ("3" :> 3) @@ ("4" :> 4)
    @@ ("5" :> 5) @@ ("6" :> 6) @@ ("7" :> 7) @@ ("8" :> 8) @@ ("9" :> 9)
    @@ ("a" :> 10) @@ ("b" :> 11) @@ ("c" :> 12) @@ ("d" :> 13)
    @@ ("e" :> 14) @@ ("f" :> 15)
    @@ ("A" :> 10) @@ ("B" :> 11) @@ ("C" :> 12) @@ ("D" :> 13)
    @@ ("E" :> 14) @@ ("F" :> 15)
to_digit(c, radix) ==
    IF c \in DOMAIN DigitValue /\ DigitValue[c] < radix
    THEN Some(DigitValue[c]) ELSE None

\* The code point of a character (those the model's strings are made of).
CharCode ==
    ("0" :> 48) @@ ("1" :> 49) @@ ("2" :> 50) @@ ("3" :> 51) @@ ("4" :> 52)
    @@ ("5" :> 53) @@ ("6" :> 54) @@ ("7" :> 55) @@ ("8" :> 56) @@ ("9" :> 57)
    @@ ("A" :> 65) @@ ("B" :> 66) @@ ("C" :> 67) @@ ("D" :> 68)
    @@ ("E" :> 69) @@ ("F" :> 70)
    @@ ("a" :> 97) @@ ("b" :> 98) @@ ("c" :> 99) @@ ("d" :> 100)
    @@ ("e" :> 101) @@ ("f" :> 102) @@ ("u" :> 117)
    @@ ("%" :> 37) @@ ("+" :> 43) @@ ("-" :> 45) @@ ("=" :> 61)
    @@ (":" :> 58) @@ ("g" :> 103) @@ ("i" :> 105) @@ ("l" :> 108)
    @@ ("m" :> 109) @@ ("o" :> 111) @@ ("p" :> 112) @@ ("s" :> 115)
    @@ ("w" :> 119) @@ (" " :> 32) @@ ("h" :> 104) @@ ("n" :> 110)
    @@ ("r" :> 114) @@ ("t" :> 116) @@ ("v" :> 118) @@ ("y" :> 121)
    @@ ("z" :> 122) @@ ("{" :> 123) @@ ("}" :> 125)

\* str::as_bytes
as_bytes(value) == [i \in 1..Len(value) |-> CharCode[value[i]]]

Ok(x) == [ok |-> Some(x), err |-> None]
Err(text) == [ok |-> None, err |-> Some(text)]

\* parse_qs_to_bytes: the loop over i, acc the bytes written so far.
RECURSIVE parse_qs_loop(_, _, _, _)
parse_qs_loop(rest, i, N, acc) ==
    IF i >= N
    THEN IF rest # << >> THEN Err("Too many characters") ELSE Ok(acc)
    ELSE IF rest = << >> THEN Err("Too few characters")
    ELSE IF Head(rest) = "%"
    THEN LET a == IF Len(rest) >= 2 THEN to_digit(rest[2], 16) ELSE None
             b == IF Len(rest) >= 3 THEN to_digit(rest[3], 16) ELSE None
         IN IF a = None \/ b = None
            THEN Err("Expected % to be followed by two hex characters")
            ELSE parse_qs_loop(SubSeq(rest, 4, Len(rest)), i + 1, N,
                               Append(acc, a[1] * 16 + b[1]))
    ELSE IF CharCode[Head(rest)] <= 127
    THEN parse_qs_loop(Tail(rest), i + 1, N,
                       Append(acc, CharCode[Head(rest)]))
    ELSE Err("Unexpected non-ASCII character")

\* parse_qs_to_bytes::<N>; the mutant takes every character as it stands.
parse_qs_literally(input, N) ==
    IF Len(input) > N THEN Err("Too many characters")
    ELSE IF Len(input) < N THEN Err("Too few characters")
    ELSE Ok(as_bytes(input))

parse_qs_to_bytes_N(input, N) == parse_qs_loop(input, 0, N, << >>)

\* u16::MAX, u64::MAX and i128::MAX in decimal digits.
MaxNumeral(bits) ==
    CASE bits = 16 -> << 6, 5, 5, 3, 5 >>
      [] bits = 64 -> << 1, 8, 4, 4, 6, 7, 4, 4, 0, 7, 3, 7, 0, 9, 5, 5,
                         1, 6, 1, 5 >>
      [] bits = 127 -> << 1, 7, 0, 1, 4, 1, 1, 8, 3, 4, 6, 0, 4, 6, 9, 2,
                          3, 1, 7, 3, 1, 6, 8, 7, 3, 0, 3, 7, 1, 5, 8, 8,
                          4, 1, 0, 5, 7, 2, 7 >>

RECURSIVE StripZeros(_)
StripZeros(digits) ==
    IF digits # << >> /\ Head(digits) = 0 THEN StripZeros(Tail(digits))
    ELSE digits

RECURSIVE DigitsGreater(_, _)
DigitsGreater(a, b) ==
    /\ a # << >>
    /\ \/ Head(a) > Head(b)
       \/ Head(a) = Head(b) /\ DigitsGreater(Tail(a), Tail(b))

\* checked_mul / checked_add would overflow the type.
Overflows(digits, bits) ==
    LET d == StripZeros(digits)
        m == MaxNumeral(bits)
    IN \/ Len(d) > Len(m)
       \/ Len(d) = Len(m) /\ DigitsGreater(d, m)

RECURSIVE Horner(_, _)
Horner(digits, acc) ==
    IF digits = << >> THEN acc
    ELSE Horner(Tail(digits), acc * 10 + Head(digits))

\* u16 / u64 FromStr (from_str_radix 10): an optional '+', then one or
\* more decimal digits, no overflow.
u_from_str(value, bits) ==
    LET body == IF value # << >> /\ Head(value) = "+" THEN Tail(value)
                ELSE value
    IN IF body = << >> THEN None
       ELSE IF \E i \in 1..Len(body) : to_digit(body[i], 10) = None THEN None
       ELSE LET digits == [i \in 1..Len(body) |-> to_digit(body[i], 10)[1]]
            IN IF Overflows(digits, bits) THEN None
               ELSE Some(Horner(digits, 0))

\* IpAddr FromStr, for the addresses the model's queries carry.
IpAddr_from_str(value) ==
    IF value \in {<< "10.0.0.2" >>} THEN Some(value[1]) ELSE None

\* Event FromStr on a token string.
Event_parse(value) ==
    IF Len(value) = 1 /\ value[1] \in Events THEN Ok(value[1])
    ELSE Err("Unknown event")

\* str::split
RECURSIVE split(_, _)
split(input, sep) ==
    IF \A i \in 1..Len(input) : input[i] # sep THEN << input >>
    ELSE LET at == CHOOSE i \in 1..Len(input) :
                       /\ input[i] = sep
                       /\ \A j \in 1..(i - 1) : input[j] # sep
         IN << SubSeq(input, 1, at - 1) >>
            \o split(SubSeq(input, at + 1, Len(input)), sep)

\* str::split_once
split_once(input, sep) ==
    IF \A i \in 1..Len(input) : input[i] # sep THEN None
    ELSE LET at == CHOOSE i \in 1..Len(input) :
                       /\ input[i] = sep
                       /\ \A j \in 1..(i - 1) : input[j] # sep
         IN Some(<< SubSeq(input, 1, at - 1),
                    SubSeq(input, at + 1, Len(input)) >>)

\* impl FromStr for Request: its locals, one turn of its loop, its loop
\* and its result, on a query string given character by character.
Request_locals ==
    [ info_hash |-> None, peer_id |-> None, ip |-> None, port |-> None,
      uploaded |-> None, downloaded |-> None, left |-> None, event |-> None,
      numwant |-> None, key |-> None, compact |-> None,
      supportcrypto |-> None, requirecrypto |-> None, no_peer_id |-> None,
      trackerid |-> None, err |-> None ]

Request_clause(l, clause) ==
    LET kv == split_once(clause, "=")
    IN IF kv = None \/ Len(kv[1][1]) # 1 THEN l
       ELSE
        LET clause_key == kv[1][1][1]
            value == kv[1][2]
            bytes == parse_qs_to_bytes_N(value, HashLen)
            number == u_from_str(value, IF clause_key = "port" THEN 16 ELSE 64)
            Invalid(name) == "Invalid \"" \o name \o "\" value"
        IN CASE clause_key \in {"info_hash", "peer_id"} ->
                  IF bytes.ok = None THEN [l EXCEPT !.err = bytes.err]
                  ELSE [l EXCEPT ![clause_key] = bytes.ok]
             [] clause_key = "ip" ->
                  IF IpAddr_from_str(value) = None
                  THEN [l EXCEPT !.err = Some(Invalid("ip"))]
                  ELSE [l EXCEPT !.ip = IpAddr_from_str(value)]
             [] clause_key \in {"port", "uploaded", "downloaded", "left",
                                "numwant"} ->
                  IF number = None
                  THEN [l EXCEPT !.err = Some(Invalid(clause_key))]
                  ELSE [l EXCEPT ![clause_key] = number]
             [] clause_key = "event" ->
                  IF Event_parse(value).ok = None
                  THEN [l EXCEPT !.err = Event_parse(value).err]
                  ELSE [l EXCEPT !.event = Event_parse(value).ok]
             [] clause_key \in {"key", "trackerid"} ->
                  [l EXCEPT ![clause_key] = Some(as_bytes(value))]
             [] clause_key \in {"compact", "supportcrypto", "requirecrypto",
                                "no_peer_id"} ->
                  [l EXCEPT ![clause_key] = Some(value = << "1" >>)]
             [] OTHER -> l

RECURSIVE Request_loop(_, _)
Request_loop(clauses, l) ==
    IF clauses = << >> \/ l.err # None THEN l
    ELSE Request_loop(Tail(clauses), Request_clause(l, Head(clauses)))

Request_from_str(input) ==
    LET l == Request_loop(split(input, "&"), Request_locals)
    IN IF l.err # None THEN Err(l.err[1])
       ELSE IF \E f \in RequiredFields : l[f] = None
       THEN Err("Missing one or more required fields.")
       ELSE Ok([ f \in DOMAIN Request_locals \ {"err"} |->
                    IF f \in RequiredFields THEN l[f][1] ELSE l[f] ])

\* ---- the query strings parsed: what is given, and how it is written ----
\* The bytes an id is made of, and the ways a query string can write each:
\* as the character itself, or as % and two hex digits of either case.
QsBytes == {117, 157}
ByteWritten(b) ==
    IF b = 117 THEN { << "u" >>, << "%", "7", "5" >> }
    ELSE { << "%", "9", "D" >>, << "%", "9", "d" >> }

RECURSIVE BytesWritten(_)
BytesWritten(bytes) ==
    IF bytes = << >> THEN { << >> }
    ELSE { w \o rest : w \in ByteWritten(Head(bytes)),
                       rest \in BytesWritten(Tail(bytes)) }

\* << what is written, what it stands for >>
IdsGiven ==
    UNION { { << w, bytes >> : w \in BytesWritten(bytes) } :
            bytes \in [1..HashLen -> QsBytes] }
PortsGiven == { << << "0" >>, 0 >>,
                << << "6", "8", "8", "1" >>, 6881 >>,
                << << "6", "5", "5", "3", "5" >>, 65535 >> }
CountsGiven == { << << "0" >>, 0 >>,
                 << << "5", "0", "3", "7" >>, 5037 >>,
                 << << "0", "8", "0" >>, 80 >> }

\* The optional parameters of a query: << name, written, stands for >>.
OptionalsGiven ==
    { << >>,
      << << "event", << "started" >>, "started" >> >>,
      << << "event", << "stopped" >>, "stopped" >>,
         << "numwant", << "8", "0" >>, 80 >>,
         << "key", << "C", "E", "0", "9" >>, << 67, 69, 48, 57 >> >>,
         << "compact", << "1" >>, TRUE >>,
         << "supportcrypto", << "1" >>, TRUE >> >>,
      << << "numwant", << "0" >>, 0 >>,
         << "compact", << "0" >>, FALSE >>,
         << "event", << "completed" >>, "completed" >> >>,
      << << "key", << "%", "4", "1" >>, << 37, 52, 49 >> >>,
         << "no_peer_id", << "1" >>, TRUE >>,
         << "requirecrypto", << "0" >>, FALSE >>,
         << "trackerid", << "a", "b" >>, << 97, 98 >> >>,
         << "ip", << "10.0.0.2" >>, "10.0.0.2" >> >> }

\* The parameters of one query, required ones first.
ParametersGiven(info_hash, peer_id, port, uploaded, downloaded, left,
                optionals) ==
    << << "info_hash", info_hash[1], info_hash[2] >>,
       << "peer_id", peer_id[1], peer_id[2] >>,
       << "port", port[1], port[2] >>,
       << "uploaded", uploaded[1], uploaded[2] >>,
       << "downloaded", downloaded[1], downloaded[2] >>,
       << "left", left[1], left[2] >> >> \o optionals

\* name=value&name=value..., the parameters in the order of `order`.
RECURSIVE WriteQuery(_, _)
WriteQuery(given, order) ==
    IF order = << >> THEN << >>
    ELSE << given[Head(order)][1], "=" >> \o given[Head(order)][2]
         \o (IF Len(order) > 1 THEN << "&" >> ELSE << >>)
         \o WriteQuery(given, Tail(order))

A_HASH == CHOOSE x \in IdsGiven : x[2] = [i \in 1..HashLen |-> 157]
A_PEER == CHOOSE x \in IdsGiven : x[2] = [i \in 1..HashLen |-> 117]

\* Queries in one order with many values, and one query in every order.
QueriesGiven ==
    { [ given |-> g, order |-> [i \in 1..Len(g) |-> i] ] :
        g \in { ParametersGiven(h, A_PEER, p, << << "0" >>, 0 >>, c, c, o) :
                  h \in IdsGiven, p \in PortsGiven, c \in CountsGiven,
                  o \in OptionalsGiven } }
    \cup
    { [ given |-> g, order |-> [i \in 1..Len(g) |-> p[i]] ] :
        g \in { ParametersGiven(A_HASH, A_PEER, << << "6", "8", "8", "1" >>, 6881 >>,
                                << << "0" >>, 0 >>, << << "0", "8", "0" >>, 80 >>,
                                << << "5", "0", "3", "7" >>, 5037 >>,
                                << << "event", << "started" >>, "started" >> >>) },
        p \in Permutations(1..7) }

\* The Request the parameters stand for.
RequestGiven(given) ==
    [ f \in DOMAIN Request_locals \ {"err"} |->
        IF \E i \in 1..Len(given) : given[i][1] = f
        THEN LET v == given[CHOOSE i \in 1..Len(given) : given[i][1] = f][3]
             IN IF f \in RequiredFields THEN v ELSE Some(v)
        ELSE None ]

\* value.parse::<Request>()
Request_parsed ==
    /\ result = None
    /\ result' = Some(Request_from_str(WriteQuery(arg.given, arg.order)))
    /\ UNCHANGED << arg, clientVars, trackerVars, handlerVars, peerVars,
                    announcerVars, dialVars >>

QueryInit ==
    /\ ClientStart /\ runtime = "threads"
    /\ TrackerStart /\ HandlersStart /\ PeerStart /\ AnnouncerStart /\ DialStart
    /\ arg \in QueriesGiven
    /\ result = None

QueryNext == Request_parsed

QuerySpec == QueryInit /\ [][QueryNext]_vars

\* C21: a query string with the six required parameters parses to the
\* Request whose info_hash and peer_id are the bytes written, whose numbers
\* are the decimal values written, whose optional fields are those given
\* and None where none is given, in whatever order the parameters stand.
C21_ParsesToGivenRequest ==
    result # None => result[1] = Ok(RequestGiven(arg.given))

C21_Witness ==
    /\ result # None
    /\ result[1].ok # None
    /\ arg.order[1] # 1
    /\ result[1].ok[1].info_hash = [i \in 1..HashLen |-> 157]
    /\ result[1].ok[1].event = Some("started")
    /\ result[1].ok[1].key = None

\* ------------------------------------- client/src/tracker.rs announce ----
AnnouncedHashes == {"H1", "H2"}      \* the torrents the client announces
TrackerIdsGiven == {"t1", "t2"}      \* the tracker ids a tracker hands out

\* What do_announce can return: a Success with or without a tracker id, a
\* Failure, or an error of the transport or the decoder.
Outcomes ==
    { [kind |-> "Success", tracker_id |-> t] : t \in OptionOf(TrackerIdsGiven) }
    \cup { [kind |-> "Failure", tracker_id |-> None],
           [kind |-> "Err", tracker_id |-> None] }

\* The Outgoing values the coordinator sends: info_hash and event.
Outgoings ==
    { [info_hash |-> h, event |-> e] :
        h \in AnnouncedHashes, e \in OptionOf({"started", "stopped"}) }

\* HashMap::get(..).cloned()
HashMap_get(map, k) == IF k \in DOMAIN map THEN Some(map[k]) ELSE None

\* HashMap::insert
HashMap_insert(map, k, v) == [x \in DOMAIN map \cup {k} |->
                                 IF x = k THEN v ELSE map[x]]

\* The match on do_announce's result, lines 73 to 83: what tracker_ids
\* holds afterwards.  The mutant forgets the id on a response without one.
tracker_ids_forgetful(ids, info_hash, outcome) ==
    IF outcome.kind = "Success" /\ outcome.tracker_id # None
    THEN HashMap_insert(ids, info_hash, outcome.tracker_id[1])
    ELSE [x \in DOMAIN ids \ {info_hash} |-> ids[x]]

tracker_ids_after(ids, info_hash, outcome) ==
    IF outcome.kind = "Success" /\ outcome.tracker_id # None
    THEN HashMap_insert(ids, info_hash, outcome.tracker_id[1])
    ELSE ids

\* receiver.recv() returns an Outgoing: the Request is built and sent.
announce_request(out) ==
    /\ IF announced = None THEN TRUE ELSE announced[1].outcome # None
    /\ announced' = Some([ request |->
                             [ info_hash |-> out.info_hash,
                               event |-> out.event,
                               trackerid |-> HashMap_get(tracker_ids,
                                                         out.info_hash) ],
                           outcome |-> None ])
    /\ UNCHANGED << tracker_ids, assigned, clientVars, trackerVars,
                    handlerVars, peerVars, codecVars, dialVars >>

\* do_announce returns; assigned keeps the newest id a Success carried.
announce_outcome(outcome) ==
    /\ announced # None /\ announced[1].outcome = None
    /\ tracker_ids' = tracker_ids_after(tracker_ids,
                                        announced[1].request.info_hash, outcome)
    /\ announced' = Some([announced[1] EXCEPT !.outcome = Some(outcome)])
    /\ assigned' =
         IF outcome.kind = "Success" /\ outcome.tracker_id # None
         THEN (announced[1].request.info_hash :> outcome.tracker_id[1])
              @@ assigned
         ELSE assigned
    /\ UNCHANGED << clientVars, trackerVars, handlerVars, peerVars, codecVars, dialVars >>

AnnouncerInit == Init /\ runtime = "tokio"

AnnouncerNext ==
    \/ \E out \in Outgoings : announce_request(out)
    \/ \E outcome \in Outcomes : announce_outcome(outcome)

AnnouncerSpec == AnnouncerInit /\ [][AnnouncerNext]_vars

\* C22: every announce request for an info-hash carries as trackerid the
\* newest tracker id a Success response for that info-hash has carried, and
\* none if there was none: responses without an id, Failures and errors
\* leave it alone, and the id of one info-hash never goes out with another.
C22_TrackerIdEchoed ==
    announced # None =>
        LET request == announced[1].request
        IN announced[1].outcome = None =>
              request.trackerid = HashMap_get(assigned, request.info_hash)

C22_Witness ==
    /\ announced # None /\ announced[1].outcome = None
    /\ announced[1].request.info_hash = "H1"
    /\ announced[1].request.trackerid = Some("t1")
    /\ "H2" \in DOMAIN assigned /\ assigned["H2"] = "t2"

\* ------------------------------------------------------ bencode.rs ----
\* A byte string is a sequence of one-character tokens.  A BencodeValue is
\* [t |-> "Bytes", b], [t |-> "Integer", i], [t |-> "List", l] or
\* [t |-> "Dict", d], d the HashMap as its set of << key, value >> entries.
MaxWire == 4     \* every byte string up to this length is decoded
MaxPairs == 3    \* the key-value pairs of the dictionaries written out

Bytes(b) == [t |-> "Bytes", b |-> b]
Integer(i) == [t |-> "Integer", i |-> i]
List(l) == [t |-> "List", l |-> l]
Dict(d) == [t |-> "Dict", d |-> d]

\* nom's results: Ok((rest, value)), Err(Err::Error), Err(Err::Failure).
P_Ok(rest, v) == [st |-> "Ok", rest |-> rest, val |-> Some(v)]
P_Error == [st |-> "Error", rest |-> << >>, val |-> None]
P_Failure == [st |-> "Failure", rest |-> << >>, val |-> None]

\* combinator::cut
cut(r) == IF r.st = "Error" THEN P_Failure ELSE r

\* bytes::tag: does input start with t?
tag(input, t) == Len(input) >= Len(t) /\ SubSeq(input, 1, Len(t)) = t

\* The decimal digits input starts with.
RECURSIVE LeadingDigits(_)
LeadingDigits(input) ==
    IF input = << >> THEN << >>
    ELSE IF to_digit(Head(input), 10) = None THEN << >>
    ELSE << to_digit(Head(input), 10)[1] >> \o LeadingDigits(Tail(input))

\* character::complete::u64 / u128: one or more digits, no overflow.
character_complete_u(input, bits) ==
    LET digits == LeadingDigits(input)
    IN IF digits = << >> \/ Overflows(digits, bits) THEN P_Error
       ELSE P_Ok(SubSeq(input, Len(digits) + 1, Len(input)),
                 Horner(digits, 0))

\* peek(one_of("123456789"))
StartsNonZero(input) ==
    /\ input # << >>
    /\ to_digit(Head(input), 10) # None
    /\ Head(input) # "0"

\* parse_bytes
parse_bytes(input) ==
    IF /\ tag(input, << "0" >>) /\ Len(input) >= 2
       /\ to_digit(input[2], 10) # None
    THEN P_Error
    ELSE LET n == character_complete_u(input, 64)
         IN IF n.st # "Ok" THEN P_Error
            ELSE IF ~tag(n.rest, << ":" >>) THEN P_Error
            ELSE IF Len(n.rest) - 1 < n.val[1] THEN P_Error
            ELSE P_Ok(SubSeq(n.rest, n.val[1] + 2, Len(n.rest)),
                      SubSeq(n.rest, 2, n.val[1] + 1))

\* parse_integer: the two arms inside cut(alt(..)), then cut(tag("e")).
parse_integer_number(body) ==
    IF tag(body, << "-" >>) /\ StartsNonZero(Tail(body))
    THEN LET u == character_complete_u(Tail(body), 127)
         IN IF u.st # "Ok" THEN P_Error ELSE P_Ok(u.rest, 0 - u.val[1])
    ELSE IF StartsNonZero(body)
    THEN character_complete_u(body, 127)
    ELSE P_Error

parse_integer(input) ==
    IF tag(input, << "i", "0", "e" >>)
    THEN P_Ok(SubSeq(input, 4, Len(input)), 0)
    ELSE IF ~tag(input, << "i" >>) THEN P_Error
    ELSE LET number == cut(parse_integer_number(Tail(input)))
         IN IF number.st # "Ok" THEN number
            ELSE IF ~tag(number.rest, << "e" >>) THEN P_Failure
            ELSE P_Ok(Tail(number.rest), number.val[1])

\* .collect() into the HashMap; the mutant keeps the first value of a key.
collect_first_wins(items) ==
    { << items[n][1], items[n][2] >> : n \in
        { n \in 1..Len(items) :
            \A m \in 1..(n - 1) : items[m][1] # items[n][1] } }

collect(items) ==
    { << items[n][1], items[n][2] >> : n \in
        { n \in 1..Len(items) :
            \A m \in (n + 1)..Len(items) : items[m][1] # items[n][1] } }

RECURSIVE parse_once(_), list_many_till(_, _), dict_many_till(_, _)

\* many_till(parse_once, tag("e")): after one more item was parsed.
list_many_till_item(item, acc) ==
    IF item.st # "Ok" THEN item
    ELSE list_many_till(item.rest, Append(acc, item.val[1]))

list_many_till(input, acc) ==
    IF tag(input, << "e" >>) THEN P_Ok(Tail(input), acc)
    ELSE list_many_till_item(parse_once(input), acc)

\* many_till(pair(parse_bytes, parse_once), tag("e")): after the key and
\* after the value of one more pair were parsed.
dict_many_till_value(k, v, acc) ==
    IF v.st # "Ok" THEN v
    ELSE dict_many_till(v.rest, Append(acc, << k.val[1], v.val[1] >>))

dict_many_till_key(k, acc) ==
    IF k.st # "Ok" THEN k
    ELSE dict_many_till_value(k, parse_once(k.rest), acc)

dict_many_till(input, acc) ==
    IF tag(input, << "e" >>) THEN P_Ok(Tail(input), acc)
    ELSE dict_many_till_key(parse_bytes(input), acc)

parse_list(input) ==
    IF ~tag(input, << "l" >>) THEN P_Error
    ELSE cut(list_many_till(Tail(input), << >>))

\* map(.., |(v, _)| v.into_iter().collect())
parse_dict_map(items) ==
    IF items.st # "Ok" THEN items
    ELSE P_Ok(items.rest, collect(items.val[1]))

parse_dict(input) ==
    IF ~tag(input, << "d" >>) THEN P_Error
    ELSE parse_dict_map(cut(dict_many_till(Tail(input), << >>)))

\* alt((..)): the next parser is taken on Err::Error only.
alt(b, i, l, d) ==
    IF b.st = "Ok" THEN P_Ok(b.rest, Bytes(b.val[1]))
    ELSE IF b.st = "Failure" THEN b
    ELSE IF i.st = "Ok" THEN P_Ok(i.rest, Integer(i.val[1]))
    ELSE IF i.st = "Failure" THEN i
    ELSE IF l.st = "Ok" THEN P_Ok(l.rest, List(l.val[1]))
    ELSE IF l.st = "Failure" THEN l
    ELSE IF d.st = "Ok" THEN P_Ok(d.rest, Dict(d.val[1]))
    ELSE d

parse_once(input) ==
    alt(parse_bytes(input), parse_integer(input), parse_list(input),
        parse_dict(input))

\* all_consuming(..) and finish(): a value only when no byte is left.
all_consuming(r) ==
    IF r.st = "Ok" /\ r.rest = << >> THEN Ok(r.val[1]) ELSE Err("decode")

first_consumed(r) == IF r.st = "Ok" THEN Ok(r.val[1]) ELSE Err("decode")

\* BencodeValue::decode; the mutant goes without all_consuming.
decode_first_value(input) == first_consumed(parse_once(input))

decode(input) == all_consuming(parse_once(input))

\* ToString of an unsigned number.
DigitChar == << "0", "1", "2", "3", "4", "5", "6", "7", "8", "9" >>
RECURSIVE NatToString(_)
NatToString(n) ==
    IF n < 10 THEN << DigitChar[n + 1] >>
    ELSE NatToString(n \div 10) \o << DigitChar[(n % 10) + 1] >>

\* b.len().to_string(); the mutant pads the length to two digits.
usize_to_string_padded(n) ==
    IF n < 10 THEN << "0" >> \o NatToString(n) ELSE NatToString(n)

usize_to_string(n) == NatToString(n)

\* i.to_string() of an i128; the mutant drops the sign.
i128_to_string_unsigned(i) == IF i < 0 THEN NatToString(0 - i) ELSE NatToString(i)

i128_to_string(i) ==
    IF i < 0 THEN << "-" >> \o NatToString(0 - i) ELSE NatToString(i)

\* Ord for [u8]: a < b or a = b, byte by byte.
RECURSIVE BytesLeq(_, _)
BytesLeq(a, b) ==
    IF a = << >> THEN TRUE
    ELSE IF b = << >> THEN FALSE
    ELSE IF CharCode[Head(a)] # CharCode[Head(b)]
    THEN CharCode[Head(a)] < CharCode[Head(b)]
    ELSE BytesLeq(Tail(a), Tail(b))

\* key_values.sort_by(|(a, _), (b, _)| a.cmp(b)); the mutant sorts the
\* other way round.
RECURSIVE sort_by_key(_), sort_by_key_descending(_)
sort_by_key_descending(entries) ==
    IF entries = {} THEN << >>
    ELSE LET first == CHOOSE e \in entries :
                          \A o \in entries : BytesLeq(o[1], e[1])
         IN << first >> \o sort_by_key_descending(entries \ {first})

sort_by_key(entries) ==
    IF entries = {} THEN << >>
    ELSE LET first == CHOOSE e \in entries :
                          \A o \in entries : BytesLeq(e[1], o[1])
         IN << first >> \o sort_by_key(entries \ {first})

\* BencodeValue::encode
RECURSIVE encode(_), encode_list(_), encode_entries(_)
encode_list(l) ==
    IF l = << >> THEN << >> ELSE encode(Head(l)) \o encode_list(Tail(l))

encode_entries(key_values) ==
    IF key_values = << >> THEN << >>
    ELSE encode(Bytes(Head(key_values)[1])) \o encode(Head(key_values)[2])
         \o encode_entries(Tail(key_values))

encode(v) ==
    CASE v.t = "Bytes" -> usize_to_string(Len(v.b)) \o << ":" >> \o v.b
      [] v.t = "Integer" -> << "i" >> \o i128_to_string(v.i) \o << "e" >>
      [] v.t = "List" -> << "l" >> \o encode_list(v.l) \o << "e" >>
      [] v.t = "Dict" ->
            << "d" >> \o encode_entries(sort_by_key(v.d)) \o << "e" >>

\* ------------------------------------------- the byte strings decoded ----
WireAlphabet == {"0", "1", ":", "a", "i", "-", "e", "l", "d"}

\* Dictionaries written out pair by pair: the keys and the values of the
\* pairs, each value as written; the last value is a dictionary whose keys
\* stand in descending order.
DictKeys == { << "a" >>, << "b" >>, << "a", "b" >> }
DictValueWires ==
    { << "0", ":" >>,
      << "i", "-", "1", "e" >>,
      << "l", "1", ":", "a", "e" >>,
      << "d", "1", ":", "b", "0", ":", "1", ":", "a", "0", ":", "e" >> }
CanonicalValueWires ==
    DictValueWires \ { << "d", "1", ":", "b", "0", ":", "1", ":", "a", "0", ":", "e" >> }

\* d 3:cow 3:moo 4:spam 4:eggs e
CowSpam ==
    << << << "c", "o", "w" >>, << "3", ":", "m", "o", "o" >> >>,
       << << "s", "p", "a", "m" >>, << "4", ":", "e", "g", "g", "s" >> >> >>

\* A key as written: its length, a colon, its bytes.
WriteKey(k) == NatToString(Len(k)) \o << ":" >> \o k

RECURSIVE WritePairs(_)
WritePairs(pairs) ==
    IF pairs = << >> THEN << >>
    ELSE WriteKey(Head(pairs)[1]) \o Head(pairs)[2] \o WritePairs(Tail(pairs))

WriteDict(pairs) == << "d" >> \o WritePairs(pairs) \o << "e" >>

\* Numerals beyond u64::MAX and i128::MAX.
TooLong ==
    { << "1","8","4","4","6","7","4","4","0","7","3","7","0","9","5","5",
         "1","6","1","6",":" >>,
      << "i","1","7","0","1","4","1","1","8","3","4","6","0","4","6","9",
         "2","3","1","7","3","1","6","8","7","3","0","3","7","1","5","8",
         "8","4","1","0","5","7","2","8","e" >>,
      << "i","-","1","7","0","1","4","1","1","8","3","4","6","0","4","6","9",
         "2","3","1","7","3","1","6","8","7","3","0","3","7","1","5","8",
         "8","4","1","0","5","7","2","8","e" >> }

\* The inputs: kind says how wire was made, pairs what a written-out
\* dictionary was made of.
AnyInput(w) == [kind |-> "any", wire |-> w, pairs |-> << >>]
DictInput(p) == [kind |-> "dict", wire |-> WriteDict(p), pairs |-> p]
CutInput(p, n) ==
    [kind |-> "cut", wire |-> SubSeq(WriteDict(p), 1, n), pairs |-> p]
TrailingInput(p, c) ==
    [kind |-> "trailing", wire |-> WriteDict(p) \o << c >>, pairs |-> p]
OverflowInput(w) == [kind |-> "overflow", wire |-> w, pairs |-> << >>]

\* Every byte string of up to MaxWire bytes; every dictionary of up to
\* MaxPairs pairs, and the cow and spam one; every proper prefix of a
\* dictionary; a dictionary and one more byte; the numerals too long.
BencodeInputs ==
    \/ \E k \in 0..MaxWire : \E w \in [1..k -> WireAlphabet] :
          arg = AnyInput(w)
    \/ \E k \in 0..MaxPairs : \E p \in [1..k -> DictKeys \X DictValueWires] :
          arg = DictInput(p)
    \/ arg = DictInput(CowSpam)
    \/ \E k \in 0..(MaxPairs - 1) :
          \E p \in [1..k -> DictKeys \X DictValueWires] :
             \E n \in 0..(Len(WriteDict(p)) - 1) : arg = CutInput(p, n)
    \/ \E p \in {<< >>} \cup { << x >> : x \in DictKeys \X DictValueWires } :
          \E c \in WireAlphabet : arg = TrailingInput(p, c)
    \/ \E w \in TooLong : arg = OverflowInput(w)

\* BencodeValue::decode(arg.wire)
BencodeValue_decode ==
    /\ result = None
    /\ result' = Some([decoded |-> decode(arg.wire), encoded |-> None,
                       again |-> None])
    /\ UNCHANGED << arg, clientVars, trackerVars, handlerVars, peerVars,
                    announcerVars, dialVars >>

\* .encode() of the value decoded
BencodeValue_encode ==
    /\ IF result = None THEN FALSE
       ELSE /\ result[1].decoded.ok # None
            /\ result[1].encoded = None
            /\ result' = Some([result[1] EXCEPT !.encoded =
                                  Some(encode(result[1].decoded.ok[1]))])
    /\ UNCHANGED << arg, clientVars, trackerVars, handlerVars, peerVars,
                    announcerVars, dialVars >>

\* BencodeValue::decode of what encode wrote
BencodeValue_decode_encoded ==
    /\ IF result = None THEN FALSE
       ELSE /\ result[1].encoded # None
            /\ result[1].again = None
            /\ result' = Some([result[1] EXCEPT !.again =
                                  Some(decode(result[1].encoded[1]))])
    /\ UNCHANGED << arg, clientVars, trackerVars, handlerVars, peerVars,
                    announcerVars, dialVars >>

BencodeInit ==
    /\ ClientStart /\ runtime = "threads"
    /\ TrackerStart /\ HandlersStart /\ PeerStart /\ AnnouncerStart /\ DialStart
    /\ BencodeInputs
    /\ result = None

BencodeNext ==
    \/ BencodeValue_decode
    \/ BencodeValue_encode
    \/ BencodeValue_decode_encoded

BencodeSpec == BencodeInit /\ [][BencodeNext]_vars

\* C23: whatever value decode gives, decoding its encoding gives it again.
C23_DecodeOfEncodeIsValue ==
    result # None =>
        (result[1].again # None => result[1].again[1] = result[1].decoded)

C23_Witness ==
    /\ result # None
    /\ result[1].again # None
    /\ result[1].decoded.ok # None
    /\ result[1].decoded.ok[1].t = "Dict"
    /\ \E e \in result[1].decoded.ok[1].d :
          e[2].t = "Integer" /\ e[2].i < 0
    /\ \E e \in result[1].decoded.ok[1].d : e[2].t = "List"

\* ---- the grammar, said without the parser ----
IsDigits(s) == \A n \in 1..Len(s) : to_digit(s[n], 10) # None

\* A numeral without a leading zero.
IsNumeral(s) == s # << >> /\ IsDigits(s) /\ (Len(s) > 1 => s[1] # "0")

DigitsOf(s) == [n \in 1..Len(s) |-> to_digit(s[n], 10)[1]]

\* <length>:<that many bytes>
IsBytesValue(s) ==
    \E k \in 1..Len(s) :
        /\ s[k] = ":"
        /\ IsNumeral(SubSeq(s, 1, k - 1))
        /\ Horner(DigitsOf(SubSeq(s, 1, k - 1)), 0) = Len(s) - k

\* i<numeral>e, i-<numeral other than 0>e
IsIntegerValue(s) ==
    /\ Len(s) >= 3 /\ s[1] = "i" /\ s[Len(s)] = "e"
    /\ LET body == SubSeq(s, 2, Len(s) - 1)
       IN IF body[1] = "-"
          THEN IsNumeral(Tail(body)) /\ Tail(body) # << "0" >>
          ELSE IsNumeral(body)

RECURSIVE IsValue(_), IsValues(_), IsPairs(_)
IsValue(s) ==
    \/ IsBytesValue(s)
    \/ IsIntegerValue(s)
    \/ Len(s) >= 2 /\ s[1] = "l" /\ s[Len(s)] = "e"
       /\ IsValues(SubSeq(s, 2, Len(s) - 1))
    \/ Len(s) >= 2 /\ s[1] = "d" /\ s[Len(s)] = "e"
       /\ IsPairs(SubSeq(s, 2, Len(s) - 1))

IsValues(s) ==
    \/ s = << >>
    \/ \E k \in 1..Len(s) :
          IsValue(SubSeq(s, 1, k)) /\ IsValues(SubSeq(s, k + 1, Len(s)))

IsPairs(s) ==
    \/ s = << >>
    \/ \E k \in 1..Len(s) : \E m \in (k + 1)..Len(s) :
          /\ IsBytesValue(SubSeq(s, 1, k))
          /\ IsValue(SubSeq(s, k + 1, m))
          /\ IsPairs(SubSeq(s, m + 1, Len(s)))

StrictlyLess(a, b) == BytesLeq(a, b) /\ a # b

\* The input is in canonical form: a written-out dictionary with its keys
\* ascending and its values canonical, or one value of the grammar among
\* the short strings (too short to hold a dictionary of two pairs).
Canonical(input) ==
    \/ /\ input.kind = "dict"
       /\ \A n \in 1..(Len(input.pairs) - 1) :
             StrictlyLess(input.pairs[n][1], input.pairs[n + 1][1])
       /\ \A n \in 1..Len(input.pairs) :
             input.pairs[n][2] \in CanonicalValueWires
                \cup { CowSpam[1][2], CowSpam[2][2] }
    \/ input.kind = "any" /\ IsValue(input.wire)

RECURSIVE DictsIn(_)
DictsIn(v) ==
    CASE v.t = "List" -> UNION { DictsIn(v.l[n]) : n \in 1..Len(v.l) }
      [] v.t = "Dict" -> {v} \cup UNION { DictsIn(e[2]) : e \in v.d }
      [] OTHER -> {}

\* The keys of an encoded dictionary in the order they are written.
KeysWritten(wire) ==
    LET items == dict_many_till(Tail(wire), << >>).val[1]
    IN [n \in 1..Len(items) |-> items[n][1]]

\* C25: in the encoding of a dictionary, at any depth, each key is greater
\* than the key before it, byte by byte, whatever order they were read in.
C25_KeysStrictlyIncreasing ==
    result # None =>
        (result[1].encoded # None =>
            \A x \in DictsIn(result[1].decoded.ok[1]) :
                LET keys == KeysWritten(encode(x))
                IN \A n \in 1..(Len(keys) - 1) :
                      StrictlyLess(keys[n], keys[n + 1]))

C25_Witness ==
    /\ arg.kind = "dict" /\ Len(arg.pairs) = 3
    /\ StrictlyLess(arg.pairs[3][1], arg.pairs[2][1])
    /\ StrictlyLess(arg.pairs[2][1], arg.pairs[1][1])
    /\ arg.pairs[1][2] \notin CanonicalValueWires
    /\ result # None
    /\ result[1].encoded # None
    /\ result[1].encoded[1] # arg.wire

\* The inputs C26 names.
NamedErrors ==
    { << "i", "-", "0", "e" >>, << "i", "e" >>, << "i", "0", "1", "e" >>,
      << "0", "1", ":", "a" >>, << "0", "0", ":" >>, << "0", ":", "e" >>,
      << "1", ":" >>, << "i", "1" >>, << "l" >>, << "d" >>,
      << "l", "i", "1", "e" >> }

\* C26: decode gives a value only for exactly one value of the grammar:
\* it gives an error when bytes follow the value, when a length or an
\* integer has a leading zero, for i-0e and ie, and when a string, an
\* integer, a list or a dictionary is cut short.
C26_DecodesOnlyOneValue ==
    result # None =>
        /\ (result[1].decoded.ok = None) # (result[1].decoded.err = None)
        /\ (arg.kind = "any" /\ result[1].decoded.ok # None) =>
               IsValue(arg.wire)
        /\ arg.kind \in {"cut", "trailing", "overflow"} =>
               result[1].decoded.ok = None
        /\ arg.wire \in NamedErrors => result[1].decoded.ok = None

C26_Witness ==
    /\ arg.kind = "trailing" /\ Len(arg.pairs) = 1
    /\ result # None
    /\ result[1].decoded.ok = None

\* The value the last pair with key k holds.
LastValue(pairs, k) ==
    LET last == CHOOSE n \in 1..Len(pairs) :
                    /\ pairs[n][1] = k
                    /\ \A m \in (n + 1)..Len(pairs) : pairs[m][1] # k
    IN decode(pairs[last][2]).ok[1]

\* C27: a dictionary whose wire form repeats a key decodes to the value of
\* the key's last occurrence, and its encoding holds each key once.
C27_LastOccurrenceWins ==
    (arg.kind = "dict" /\ result # None) =>
        /\ result[1].decoded =
              Ok(Dict({ << arg.pairs[n][1], LastValue(arg.pairs, arg.pairs[n][1]) >> :
                          n \in 1..Len(arg.pairs) }))
        /\ result[1].encoded # None =>
              LET keys == KeysWritten(result[1].encoded[1])
              IN /\ { keys[n] : n \in 1..Len(keys) }
                      = { arg.pairs[n][1] : n \in 1..Len(arg.pairs) }
                 /\ \A m, n \in 1..Len(keys) : keys[m] = keys[n] => m = n

C27_Witness ==
    /\ arg.kind = "dict" /\ Len(arg.pairs) = 3
    /\ arg.pairs[1][1] = arg.pairs[3][1]
    /\ arg.pairs[1][2] # arg.pairs[3][2]
    /\ arg.pairs[2][1] # arg.pairs[1][1]
    /\ result # None
    /\ result[1].encoded # None

\* ------------------------------------------------------- metainfo ----
\* The error texts are the code's, with ' where the code writes a backtick.
PieceLen == 2    \* the bytes of a Piece (20 in the code)
Md5Len == 1      \* the bytes of an Md5Value (16 in the code)

K_info == << "i", "n", "f", "o" >>
K_announce == << "a", "n", "n", "o", "u", "n", "c", "e" >>
K_announce_list ==
    << "a", "n", "n", "o", "u", "n", "c", "e", "-", "l", "i", "s", "t" >>
K_creation_date ==
    << "c", "r", "e", "a", "t", "i", "o", "n", " ", "d", "a", "t", "e" >>
K_comment == << "c", "o", "m", "m", "e", "n", "t" >>
K_created_by == << "c", "r", "e", "a", "t", "e", "d", " ", "b", "y" >>
K_encoding == << "e", "n", "c", "o", "d", "i", "n", "g" >>
K_piece_length ==
    << "p", "i", "e", "c", "e", " ", "l", "e", "n", "g", "t", "h" >>
K_pieces == << "p", "i", "e", "c", "e", "s" >>
K_name == << "n", "a", "m", "e" >>
K_length == << "l", "e", "n", "g", "t", "h" >>
K_files == << "f", "i", "l", "e", "s" >>
K_md5sum == << "m", "d", "5", "s", "u", "m" >>
K_path == << "p", "a", "t", "h" >>
K_private == << "p", "r", "i", "v", "a", "t", "e" >>

\* HashMap::remove: the value under key, if any.
HashMap_remove(d, key) ==
    IF \E e \in d : e[1] = key
    THEN Some((CHOOSE e \in d : e[1] = key)[2])
    ELSE None

\* String::from_utf8_lossy: a byte that is no UTF-8 becomes U+FFFD; and
\* str::as_bytes, which writes U+FFFD as three bytes.
RECURSIVE from_utf8_lossy(_)
from_utf8_lossy(b) ==
    IF b = << >> THEN << >>
    ELSE (IF Head(b) = "xFF" THEN << "uFFFD" >> ELSE << Head(b) >>)
         \o from_utf8_lossy(Tail(b))

RECURSIVE str_as_bytes(_)
str_as_bytes(s) ==
    IF s = << >> THEN << >>
    ELSE (IF Head(s) = "uFFFD" THEN << "xEF", "xBF", "xBD" >>
          ELSE << Head(s) >>)
         \o str_as_bytes(Tail(s))

\* BencodeValue::to_string
to_string(v) == IF v.t = "Bytes" THEN Some(from_utf8_lossy(v.b)) ELSE None

\* BencodeValue::to_time: seconds after (or, negative, before) the epoch.
to_time(v) == IF v.t = "Integer" THEN Some(v.i) ELSE None

\* From<&SystemTime> for BencodeValue
from_time(t) == Integer(IF t >= 0 THEN t ELSE (0 - t) * (0 - 1))

\* Sha1 of a byte string, taken to be free of collisions.
Sha1(b) == [sha1 |-> b]

\* The Results of a sequence, or the first error among them.
Collected(results) ==
    IF \E n \in 1..Len(results) : results[n].ok = None
    THEN Err(results[CHOOSE n \in 1..Len(results) :
                        /\ results[n].ok = None
                        /\ \A m \in 1..(n - 1) : results[m].ok # None].err[1])
    ELSE Ok([n \in 1..Len(results) |-> results[n].ok[1]])

\* impl TryFrom<BencodeValue> for Md5Value: 2 * Md5Len hex characters.
HexPair(a, b) ==
    IF a = "+" /\ to_digit(b, 16) # None THEN to_digit(b, 16)
    ELSE IF to_digit(a, 16) # None /\ to_digit(b, 16) # None
    THEN Some(to_digit(a, 16)[1] * 16 + to_digit(b, 16)[1])
    ELSE None

Md5Value_try_from(v) ==
    IF v.t # "Bytes" THEN Err("'md5sum' value must be a string")
    ELSE IF Len(v.b) # 2 * Md5Len
    THEN Err("'md5sum' value must be 32 bytes long")
    ELSE LET bytes == [n \in 1..Md5Len |-> HexPair(v.b[2 * n - 1], v.b[2 * n])]
         IN IF \E n \in 1..Md5Len : bytes[n] = None
            THEN Err("'md5sum' must be made up of valid hex characters")
            ELSE Ok([n \in 1..Md5Len |-> bytes[n][1]])

\* format!("{:x}", u)
HexChar == << "0", "1", "2", "3", "4", "5", "6", "7", "8", "9",
              "a", "b", "c", "d", "e", "f" >>
format_x(u) ==
    IF u < 16 THEN << HexChar[u + 1] >>
    ELSE << HexChar[(u \div 16) + 1], HexChar[(u % 16) + 1] >>

\* impl From<&Md5Value> for BencodeValue
RECURSIVE Md5Value_hex(_)
Md5Value_hex(bytes) ==
    IF bytes = << >> THEN << >>
    ELSE format_x(Head(bytes)) \o Md5Value_hex(Tail(bytes))

Md5Value_into(md5) == Bytes(Md5Value_hex(md5))

\* An optional md5sum entry: None, Some(Ok(..)) or Some(Err(..)).
Md5_optional(d) ==
    IF HashMap_remove(d, K_md5sum) = None THEN Ok(None)
    ELSE LET r == Md5Value_try_from(HashMap_remove(d, K_md5sum)[1])
         IN IF r.ok = None THEN r ELSE Ok(r.ok)

\* impl TryFrom<BencodeValue> for File
File_try_from(v) ==
    IF v.t # "Dict" THEN Err("'file' value must be a dict")
    ELSE LET length == HashMap_remove(v.d, K_length)
             path_list == HashMap_remove(v.d, K_path)
         IN IF length = None \/ path_list = None
            THEN Err("'file' dict must have length and path values")
            ELSE IF length[1].t # "Integer" \/ path_list[1].t # "List"
            THEN Err("'file' dict must have length and path values")
            ELSE IF Md5_optional(v.d).ok = None THEN Md5_optional(v.d)
            ELSE IF \E n \in 1..Len(path_list[1].l) :
                        to_string(path_list[1].l[n]) = None
            THEN Err("'path' components must be strings")
            ELSE IF length[1].i < 0 THEN Err("out of range")
            ELSE Ok([ length |-> length[1].i,
                      md5sum |-> Md5_optional(v.d).ok[1],
                      path |-> [n \in 1..Len(path_list[1].l) |->
                                   to_string(path_list[1].l[n])[1]] ])

\* pieces_bytes.chunks_exact(20)
chunks_exact(b, size) ==
    [n \in 1..(Len(b) \div size) |-> SubSeq(b, (n - 1) * size + 1, n * size)]

\* impl TryFrom<BencodeValue> for Info
Info_try_from(v) ==
    IF v.t # "Dict" THEN Err("'info' value must be a dict")
    ELSE
     LET piece_length == HashMap_remove(v.d, K_piece_length)
         pieces_bytes == HashMap_remove(v.d, K_pieces)
         name == IF HashMap_remove(v.d, K_name) = None THEN None
                 ELSE to_string(HashMap_remove(v.d, K_name)[1])
         length == HashMap_remove(v.d, K_length)
         files == HashMap_remove(v.d, K_files)
         Missing == Err("'info' dict must contain 'piece length' and 'pieces' keys")
         OneOf == Err("Exactly one of 'length' or 'files' keys must be present")
     IN IF piece_length = None \/ pieces_bytes = None \/ name = None
        THEN Missing
        ELSE IF piece_length[1].t # "Integer" \/ pieces_bytes[1].t # "Bytes"
        THEN Missing
        ELSE IF pieces_bytes[1].b = << >> \/ Len(pieces_bytes[1].b) % PieceLen # 0
        THEN Err("'pieces' must be a nonempty stream with a length that is a multiple of 20 bytes")
        ELSE IF length # None /\ files = None
        THEN IF length[1].t # "Integer" THEN OneOf
             ELSE IF piece_length[1].i < 0 \/ length[1].i < 0
             THEN Err("out of range")
             ELSE IF Md5_optional(v.d).ok = None THEN Md5_optional(v.d)
             ELSE Ok([ kind |-> "SingleFile",
                       piece_length |-> piece_length[1].i,
                       pieces |-> chunks_exact(pieces_bytes[1].b, PieceLen),
                       name |-> name[1],
                       length |-> length[1].i,
                       md5sum |-> Md5_optional(v.d).ok[1],
                       files |-> << >> ])
        ELSE IF length = None /\ files # None
        THEN IF files[1].t # "List" THEN OneOf
             ELSE IF piece_length[1].i < 0 THEN Err("out of range")
             ELSE LET each == Collected([n \in 1..Len(files[1].l) |->
                                            File_try_from(files[1].l[n])])
                  IN IF each.ok = None THEN each
                     ELSE Ok([ kind |-> "MultiFile",
                               piece_length |-> piece_length[1].i,
                               pieces |-> chunks_exact(pieces_bytes[1].b, PieceLen),
                               name |-> name[1],
                               length |-> 0,
                               md5sum |-> None,
                               files |-> each.ok[1] ])
        ELSE OneOf

\* An optional string entry of the top-level dictionary.
String_optional(d, key, text) ==
    IF HashMap_remove(d, key) = None THEN Ok(None)
    ELSE IF to_string(HashMap_remove(d, key)[1]) = None THEN Err(text)
    ELSE Ok(to_string(HashMap_remove(d, key)[1]))

\* The announce-list entry, lines 64 to 90.
announce_list_from(d) ==
    LET tiers == HashMap_remove(d, K_announce_list)
    IN IF tiers = None THEN Ok(None)
       ELSE IF tiers[1].t # "List" THEN Err("'announce-list' must be a list")
       ELSE IF \E n \in 1..Len(tiers[1].l) : tiers[1].l[n].t # "List"
       THEN Err("'announce-list' must consist exclusively of lists")
       ELSE IF \E n \in 1..Len(tiers[1].l) :
                  \E m \in 1..Len(tiers[1].l[n].l) :
                     to_string(tiers[1].l[n].l[m]) = None
       THEN Err("Each 'announce-list' tier must consist exclusively of strings")
       ELSE Ok(Some([n \in 1..Len(tiers[1].l) |->
                       [m \in 1..Len(tiers[1].l[n].l) |->
                           to_string(tiers[1].l[n].l[m])[1]]]))

\* impl TryFrom<BencodeValue> for MetainfoFile
MetainfoFile_try_from(v) ==
    IF v.t # "Dict" THEN Err("Torrent file must be a bencoded dict")
    ELSE
     LET info_benc == HashMap_remove(v.d, K_info)
         announce_url == IF HashMap_remove(v.d, K_announce) = None THEN None
                     ELSE to_string(HashMap_remove(v.d, K_announce)[1])
         announce_list == announce_list_from(v.d)
         date == HashMap_remove(v.d, K_creation_date)
         comment == String_optional(v.d, K_comment,
                                    "'comment' must be a valid string")
         created_by == String_optional(v.d, K_created_by,
                                       "'created by' must be a valid string")
         encoding == String_optional(v.d, K_encoding,
                                     "'encoding' must be a valid string")
     IN IF info_benc = None \/ announce_url = None
        THEN Err("Torrent file must contain 'info' and 'announce' keys")
        ELSE IF announce_list.ok = None THEN announce_list
        ELSE IF date # None /\ (IF date = None THEN FALSE
                                ELSE to_time(date[1]) = None)
        THEN Err("'creation date' must be a valid UNIX timestamp")
        ELSE IF comment.ok = None THEN comment
        ELSE IF created_by.ok = None THEN created_by
        ELSE IF encoding.ok = None THEN encoding
        ELSE IF Info_try_from(info_benc[1]).ok = None
        THEN Info_try_from(info_benc[1])
        ELSE Ok([ info |-> Info_try_from(info_benc[1]).ok[1],
                  announce |-> announce_url[1],
                  announce_list |-> announce_list.ok[1],
                  creation_date |-> IF date = None THEN None
                                    ELSE to_time(date[1]),
                  comment |-> comment.ok[1],
                  created_by |-> created_by.ok[1],
                  encoding |-> encoding.ok[1],
                  info_hash |-> Sha1(encode(info_benc[1])) ])

\* impl TryFrom<&[u8]> for MetainfoFile
MetainfoFile_load(input) ==
    IF decode(input).ok = None THEN Err("decode")
    ELSE MetainfoFile_try_from(decode(input).ok[1])

\* An Option as the entries it chains in: none or one.
OptionEntry(key, option, value) ==
    IF option = None THEN << >> ELSE << << key, value >> >>

\* impl From<&File> for BencodeValue
File_into(file) ==
    Dict(collect(
        << << K_length, Integer(file.length) >>,
           << K_path, List([n \in 1..Len(file.path) |->
                               Bytes(str_as_bytes(file.path[n]))]) >> >>
        \o OptionEntry(K_md5sum, file.md5sum,
                       IF file.md5sum = None THEN Bytes(<< >>)
                       ELSE Md5Value_into(file.md5sum[1]))))

\* pieces.iter().map(|piece| piece.iter()).flatten()
RECURSIVE flatten(_)
flatten(chunks) ==
    IF chunks = << >> THEN << >> ELSE Head(chunks) \o flatten(Tail(chunks))

\* impl From<&Info> for BencodeValue
Info_into(info) ==
    Dict(collect(
        << << K_piece_length, Integer(info.piece_length) >>,
           << K_pieces, Bytes(flatten(info.pieces)) >>,
           << K_name, Bytes(str_as_bytes(info.name)) >> >>
        \o (IF info.kind = "SingleFile"
            THEN << << K_length, Integer(info.length) >> >>
                 \o OptionEntry(K_md5sum, info.md5sum,
                                IF info.md5sum = None THEN Bytes(<< >>)
                                ELSE Md5Value_into(info.md5sum[1]))
            ELSE << << K_files, List([n \in 1..Len(info.files) |->
                                         File_into(info.files[n])]) >> >>)))

\* impl From<&MetainfoFile> for BencodeValue
MetainfoFile_into(m) ==
    Dict(collect(
        << << K_info, Info_into(m.info) >>,
           << K_announce, Bytes(str_as_bytes(m.announce)) >> >>
        \o OptionEntry(K_announce_list, m.announce_list,
              IF m.announce_list = None THEN List(<< >>)
              ELSE List([n \in 1..Len(m.announce_list[1]) |->
                     List([k \in 1..Len(m.announce_list[1][n]) |->
                        Bytes(str_as_bytes(m.announce_list[1][n][k]))])]))
        \o OptionEntry(K_creation_date, m.creation_date,
              IF m.creation_date = None THEN Integer(0)
              ELSE from_time(m.creation_date[1]))
        \o OptionEntry(K_comment, m.comment,
              IF m.comment = None THEN Bytes(<< >>)
              ELSE Bytes(str_as_bytes(m.comment[1])))
        \o OptionEntry(K_created_by, m.created_by,
              IF m.created_by = None THEN Bytes(<< >>)
              ELSE Bytes(str_as_bytes(m.created_by[1])))
        \o OptionEntry(K_encoding, m.encoding,
              IF m.encoding = None THEN Bytes(<< >>)
              ELSE Bytes(str_as_bytes(m.encoding[1])))))

\* impl From<&MetainfoFile> for Vec<u8>
MetainfoFile_bytes(m) == encode(MetainfoFile_into(m))

\* ------------------------------------------ the metainfo files loaded ----
RECURSIVE Repeat(_, _)
Repeat(x, n) == IF n = 0 THEN << >> ELSE x \o Repeat(x, n - 1)

\* The values of a file's entries, each as written.
AnnouncesWritten == { << "1", ":", "u" >>, << "1", ":", "xFF" >> }
AnnounceListsWritten ==
    { << "l", "e" >>,
      << "l", "l", "1", ":", "u", "1", ":", "v", "e", "l", "e", "e" >> }
DatesWritten == { << "i", "5", "e" >>, << "i", "-", "5", "e" >> }
Md5sWritten ==
    { WriteKey(Repeat(pair, Md5Len)) :
        pair \in { << "f", "f" >>, << "0", "a" >>, << "F", "F" >> } }
PiecesWritten ==
    { WriteKey(Repeat(<< "a" >>, PieceLen * n)) : n \in 1..2 }
FileWritten(md5) ==
    WriteDict(<< << K_length, << "i", "1", "e" >> >> >>
              \o (IF md5 = None THEN << >> ELSE << << K_md5sum, md5[1] >> >>)
              \o << << K_path, << "l", "1", ":", "a", "e" >> >> >>)
FilesWritten ==
    { << "l", "e" >> }
    \cup { << "l" >> \o FileWritten(md5) \o FileWritten(None) \o << "e" >> :
             md5 \in OptionOf(Md5sWritten) }

\* The pairs of an info dictionary, its keys ascending.
SingleFilePairs(md5, pieces) ==
    << << K_length, << "i", "7", "e" >> >> >>
    \o (IF md5 = None THEN << >> ELSE << << K_md5sum, md5[1] >> >>)
    \o << << K_name, << "1", ":", "a" >> >>,
          << K_piece_length, << "i", "1", "6", "e" >> >>,
          << K_pieces, pieces >> >>
MultiFilePairs(files, pieces) ==
    << << K_files, files >>,
       << K_name, << "1", ":", "a" >> >>,
       << K_piece_length, << "i", "1", "6", "e" >> >>,
       << K_pieces, pieces >> >>
InfoPairsWritten ==
    { SingleFilePairs(md5, pieces) :
        md5 \in OptionOf(Md5sWritten), pieces \in PiecesWritten }
    \cup { MultiFilePairs(files, pieces) :
             files \in FilesWritten, pieces \in PiecesWritten }

Reverse(s) == [n \in 1..Len(s) |-> s[Len(s) + 1 - n]]

\* The ways an info dictionary is written: in canonical form; its keys
\* descending; its name given twice; with a key the loader does not know.
Variants == {"canonical", "descending", "repeated", "extra"}
InfoVariant(pairs, variant) ==
    CASE variant = "canonical" -> pairs
      [] variant = "descending" -> Reverse(pairs)
      [] variant = "repeated" ->
            << << K_name, << "1", ":", "z" >> >> >> \o pairs
      [] variant = "extra" ->
            pairs \o << << K_private, << "i", "1", "e" >> >> >>

\* The pairs of the file, its keys ascending.
MetainfoPairs(announce_w, list_w, date_w, texts, info_w) ==
    << << K_announce, announce_w >> >>
    \o (IF list_w = None THEN << >> ELSE << << K_announce_list, list_w[1] >> >>)
    \o (IF texts THEN << << K_comment, << "1", ":", "c" >> >>,
                         << K_created_by, << "1", ":", "b" >> >> >>
        ELSE << >>)
    \o (IF date_w = None THEN << >> ELSE << << K_creation_date, date_w[1] >> >>)
    \o (IF texts THEN << << K_encoding, << "1", ":", "u" >> >> >> ELSE << >>)
    \o << << K_info, info_w >> >>

MetainfoInput(announce_w, list_w, date_w, texts, info_pairs, variant) ==
    LET info_w == WriteDict(InfoVariant(info_pairs, variant))
    IN [ kind |-> variant,
         wire |-> WriteDict(MetainfoPairs(announce_w, list_w, date_w, texts,
                                          info_w)),
         pairs |-> info_pairs,
         info |-> info_w ]

MetainfoInputs ==
    \E announce_w \in AnnouncesWritten :
    \E list_w \in OptionOf(AnnounceListsWritten) :
    \E date_w \in OptionOf(DatesWritten) :
    \E texts \in BOOLEAN :
    \E info_pairs \in InfoPairsWritten :
    \E variant \in Variants :
       arg = MetainfoInput(announce_w, list_w, date_w, texts, info_pairs,
                           variant)

\* MetainfoFile::try_from(&bytes[..])
MetainfoFile_loaded ==
    /\ result = None
    /\ result' = Some([loaded |-> MetainfoFile_load(arg.wire), written |-> None])
    /\ UNCHANGED << arg, clientVars, trackerVars, handlerVars, peerVars,
                    announcerVars, dialVars >>

\* Vec::<u8>::from(&metainfo)
MetainfoFile_written ==
    /\ IF result = None THEN FALSE
       ELSE /\ result[1].loaded.ok # None
            /\ result[1].written = None
            /\ result' = Some([result[1] EXCEPT !.written =
                                  Some(MetainfoFile_bytes(result[1].loaded.ok[1]))])
    /\ UNCHANGED << arg, clientVars, trackerVars, handlerVars, peerVars,
                    announcerVars, dialVars >>

MetainfoInit ==
    /\ ClientStart /\ runtime = "threads"
    /\ TrackerStart /\ HandlersStart /\ PeerStart /\ AnnouncerStart /\ DialStart
    /\ MetainfoInputs
    /\ result = None

MetainfoNext == MetainfoFile_loaded \/ MetainfoFile_written

MetainfoSpec == MetainfoInit /\ [][MetainfoNext]_vars

\* C28: the info-hash of a loaded file is the SHA-1 of the bytes of the info
\* value as they stand in the input, whatever the order of its keys, also
\* with a repeated or an unknown key.
C28_InfoHashOfInputBytes ==
    result # None =>
        (result[1].loaded.ok # None =>
            result[1].loaded.ok[1].info_hash = Sha1(arg.info))

\* C29: a file in canonical bencode with the known keys only, once loaded,
\* is written back byte for byte.
C29_WrittenAsLoaded ==
    (arg.kind = "canonical" /\ result # None) =>
        (result[1].written # None => result[1].written[1] = arg.wire)

\* ------------------------------------------- the peer messages written ----
\* InfoHash([u8; 20]) and PeerId([u8; 20]), here at their full length.
HASH_BYTES == 20

\* "BitTorrent protocol".as_bytes()
PROTOCOL_NAME ==
    << 66, 105, 116, 84, 111, 114, 114, 101, 110, 116, 32,
       112, 114, 111, 116, 111, 99, 111, 108 >>

MaxData == 2     \* the bytes of a bitfield and of a piece's data, at most

\* u32::to_be_bytes and u32::from_be_bytes; the numbers written here stay
\* below 2^31, so that no bit is cut. The mutant writes the low byte first.
u32_to_le_bytes(n) ==
    << n % 256, (n \div 256) % 256, (n \div 65536) % 256, n \div 16777216 >>

u32_to_be_bytes(n) ==
    << n \div 16777216, (n \div 65536) % 256, (n \div 256) % 256, n % 256 >>

u32_from_be_bytes(b) ==
    b[1] * 16777216 + b[2] * 65536 + b[3] * 256 + b[4]

\* u16::to_be_bytes and u16::from_be_bytes
u16_to_be_bytes(n) == << (n % 65536) \div 256, (n % 65536) % 256 >>

u16_from_be_bytes(b) == b[1] * 256 + b[2]

\* BlockRef([u8; 12]) and its conversions
BlockRef_to_be_bytes(block) == block

BlockRef_to_be_bytes_without_len(block) == SubSeq(block, 1, 8)

BlockRef_from_be_bytes(bytes) == bytes

BlockRef_from_be_bytes_with_len(bytes, len) ==
    SubSeq(bytes, 1, 8) \o u32_to_be_bytes(len)

BlockRef_index(block) == u32_from_be_bytes(SubSeq(block, 1, 4))

BlockRef_begin(block) == u32_from_be_bytes(SubSeq(block, 5, 8))

BlockRef_length(block) == u32_from_be_bytes(SubSeq(block, 9, 12))

\* PeerMessage::write_to, into a Vec<u8>: the bytes written.
PeerMessage_write_to(m) ==
    CASE m.kind = "Handshake" ->
            << Len(PROTOCOL_NAME) >> \o PROTOCOL_NAME \o Repeat(<< 0 >>, 8)
            \o m.info_hash \o m.peer_id
      [] m.kind = "KeepAlive" -> u32_to_be_bytes(0)
      [] m.kind = "Choke" ->
            u32_to_be_bytes(PEERMESSAGE_CHOKE_LEN) \o << PEERMESSAGE_CHOKE >>
      [] m.kind = "Unchoke" ->
            u32_to_be_bytes(PEERMESSAGE_UNCHOKE_LEN)
            \o << PEERMESSAGE_UNCHOKE >>
      [] m.kind = "Interested" ->
            u32_to_be_bytes(PEERMESSAGE_INTERESTED_LEN)
            \o << PEERMESSAGE_INTERESTED >>
      [] m.kind = "NotInterested" ->
            u32_to_be_bytes(PEERMESSAGE_NOT_INTERESTED_LEN)
            \o << PEERMESSAGE_NOT_INTERESTED >>
      [] m.kind = "Have" ->
            u32_to_be_bytes(PEERMESSAGE_HAVE_LEN) \o << PEERMESSAGE_HAVE >>
            \o u32_to_be_bytes(m.index)
      [] m.kind = "Bitfield" ->
            u32_to_be_bytes(PEERMESSAGE_BITFIELD_MIN_LEN + Len(m.bitfield))
            \o << PEERMESSAGE_BITFIELD >> \o m.bitfield
      [] m.kind = "Request" ->
            u32_to_be_bytes(PEERMESSAGE_REQUEST_LEN)
            \o << PEERMESSAGE_REQUEST >> \o BlockRef_to_be_bytes(m.block)
      [] m.kind = "Piece" ->
            u32_to_be_bytes(PEERMESSAGE_PIECE_MIN_LEN + Len(m.data))
            \o << PEERMESSAGE_PIECE >>
            \o BlockRef_to_be_bytes_without_len(m.block) \o m.data
      [] m.kind = "Cancel" ->
            u32_to_be_bytes(PEERMESSAGE_CANCEL_LEN)
            \o << PEERMESSAGE_CANCEL >> \o BlockRef_to_be_bytes(m.block)
      [] m.kind = "Port" ->
            u32_to_be_bytes(PEERMESSAGE_PORT_LEN) \o << PEERMESSAGE_PORT >>
            \o u16_to_be_bytes(m.port)

\* impl TryFrom<&[u8]> for PeerMessage (common/src/peer/mod.rs); the mutant
\* goes by the first byte alone.
PeerMessage_try_from_by_id(input) ==
    IF input = << >> THEN Ok([kind |-> "KeepAlive"])
    ELSE IF input[1] \in PEERMESSAGE_CHOKE..PEERMESSAGE_PORT
    THEN Ok([kind |-> "Known"])
    ELSE Err("UnknownId")

PeerMessage_try_from(input) ==
    LET kind == try_from(Len(input), IF input = << >> THEN 0 ELSE input[1])
    IN CASE kind = "Err" ->
               IF input[1] \in PEERMESSAGE_CHOKE..PEERMESSAGE_PORT
               THEN Err("BadLength") ELSE Err("UnknownId")
         [] kind = "Have" ->
               Ok([kind |-> kind,
                   index |-> u32_from_be_bytes(SubSeq(input, 2, 5))])
         [] kind = "Bitfield" ->
               Ok([kind |-> kind, bitfield |-> SubSeq(input, 2, Len(input))])
         [] kind \in {"Request", "Cancel"} ->
               Ok([kind |-> kind,
                   block |-> BlockRef_from_be_bytes(SubSeq(input, 2, 13))])
         [] kind = "Piece" ->
               Ok([kind |-> kind,
                   block |-> BlockRef_from_be_bytes_with_len(
                                 SubSeq(input, 2, 9),
                                 Len(input) - PEERMESSAGE_PIECE_MIN_LEN),
                   data |-> SubSeq(input, 10, Len(input))])
         [] kind = "Port" ->
               Ok([kind |-> kind,
                   port |-> u16_from_be_bytes(SubSeq(input, 2, 3))])
         [] OTHER -> Ok([kind |-> kind])

\* impl From<PeerMessage> for Vec<u8> (src/schema/peer.rs): four bytes kept
\* free, the payload pushed after them, the length spliced in at the end.
schema_PeerMessage_into(m) ==
    IF m.kind = "Handshake"
    THEN << Len(PROTOCOL_NAME) >> \o PROTOCOL_NAME \o Repeat(<< 0 >>, 8)
         \o m.info_hash \o m.peer_id
    ELSE
    LET payload ==
          CASE m.kind = "KeepAlive" -> << >>
            [] m.kind = "Choke" -> << PEERMESSAGE_CHOKE >>
            [] m.kind = "Unchoke" -> << PEERMESSAGE_UNCHOKE >>
            [] m.kind = "Interested" -> << PEERMESSAGE_INTERESTED >>
            [] m.kind = "NotInterested" -> << PEERMESSAGE_NOT_INTERESTED >>
            [] m.kind = "Have" ->
                  << PEERMESSAGE_HAVE >> \o u32_to_be_bytes(m.index)
            [] m.kind = "Bitfield" -> << PEERMESSAGE_BITFIELD >> \o m.bitfield
            [] m.kind = "Request" ->
                  << PEERMESSAGE_REQUEST >> \o u32_to_be_bytes(m.index)
                  \o u32_to_be_bytes(m.begin) \o u32_to_be_bytes(m.length)
            [] m.kind = "Piece" ->
                  << PEERMESSAGE_PIECE >> \o u32_to_be_bytes(m.index)
                  \o u32_to_be_bytes(m.begin) \o m.piece
            [] m.kind = "Cancel" ->
                  << PEERMESSAGE_CANCEL >> \o u32_to_be_bytes(m.index)
                  \o u32_to_be_bytes(m.begin) \o u32_to_be_bytes(m.length)
    IN u32_to_be_bytes(Len(payload)) \o payload

\* impl TryFrom<&[u8]> for PeerMessage (src/schema/peer.rs)
schema_PeerMessage_try_from(input) ==
    LET kind == try_from(Len(input), IF input = << >> THEN 0 ELSE input[1])
    IN CASE kind \in {"Err", "Port"} -> Err("()")
         [] kind = "Have" ->
               Ok([kind |-> kind,
                   index |-> u32_from_be_bytes(SubSeq(input, 2, 5))])
         [] kind = "Bitfield" ->
               Ok([kind |-> kind, bitfield |-> SubSeq(input, 2, Len(input))])
         [] kind \in {"Request", "Cancel"} ->
               Ok([kind |-> kind,
                   index |-> u32_from_be_bytes(SubSeq(input, 2, 5)),
                   begin |-> u32_from_be_bytes(SubSeq(input, 6, 9)),
                   length |-> u32_from_be_bytes(SubSeq(input, 10, 13))])
         [] kind = "Piece" ->
               Ok([kind |-> kind,
                   index |-> u32_from_be_bytes(SubSeq(input, 2, 5)),
                   begin |-> u32_from_be_bytes(SubSeq(input, 6, 9)),
                   piece |-> SubSeq(input, 10, Len(input))])
         [] OTHER -> Ok([kind |-> kind])

\* The messages given to the encoders.
IndexesGiven == {0, 1, 256, 2147483647}
BeginsGiven == {0, 65539}
LengthsGiven == {0, 2, PIECE_MAX_LEN}
DataGiven == UNION { [1..n -> {0, 255}] : n \in 0..MaxData }
DhtPortsGiven == {0, 6881, 65535}
PlainGiven == {"KeepAlive", "Choke", "Unchoke", "Interested", "NotInterested"}

BlockRefGiven(index, begin, length) ==
    BlockRef_from_be_bytes_with_len(
        u32_to_be_bytes(index) \o u32_to_be_bytes(begin), length)

MessagesGiven ==
    \/ \E kind \in PlainGiven : \E codec \in {"common", "schema"} :
          arg = [codec |-> codec, m |-> [kind |-> kind]]
    \/ \E index \in IndexesGiven : \E codec \in {"common", "schema"} :
          arg = [codec |-> codec, m |-> [kind |-> "Have", index |-> index]]
    \/ \E data \in DataGiven : \E codec \in {"common", "schema"} :
          arg = [codec |-> codec,
                 m |-> [kind |-> "Bitfield", bitfield |-> data]]
    \/ \E port \in DhtPortsGiven :
          arg = [codec |-> "common", m |-> [kind |-> "Port", port |-> port]]
    \/ \E kind \in {"Request", "Cancel"} :
       \E index \in IndexesGiven, begin \in BeginsGiven,
          length \in LengthsGiven :
          \/ arg = [codec |-> "common",
                    m |-> [kind |-> kind,
                           block |-> BlockRefGiven(index, begin, length)]]
          \/ arg = [codec |-> "schema",
                    m |-> [kind |-> kind, index |-> index, begin |-> begin,
                           length |-> length]]
    \/ \E index \in IndexesGiven, begin \in BeginsGiven, data \in DataGiven :
          \/ \E length \in LengthsGiven \cup {Len(data)} :
                arg = [codec |-> "common",
                       m |-> [kind |-> "Piece",
                              block |-> BlockRefGiven(index, begin, length),
                              data |-> data]]
          \/ arg = [codec |-> "schema",
                    m |-> [kind |-> "Piece", index |-> index,
                           begin |-> begin, piece |-> data]]

\* message.write_to(&mut buffer)
PeerMessage_written ==
    /\ result = None
    /\ arg.codec = "common"
    /\ result' = Some([frame |-> PeerMessage_write_to(arg.m),
                       decoded |-> None])
    /\ UNCHANGED << arg, clientVars, trackerVars, handlerVars, peerVars,
                    announcerVars, dialVars >>

\* Vec::<u8>::from(message)
schema_PeerMessage_written ==
    /\ result = None
    /\ arg.codec = "schema"
    /\ result' = Some([frame |-> schema_PeerMessage_into(arg.m),
                       decoded |-> None])
    /\ UNCHANGED << arg, clientVars, trackerVars, handlerVars, peerVars,
                    announcerVars, dialVars >>

\* PeerMessage::try_from(&frame[4..])
PeerMessage_decoded ==
    /\ IF result = None THEN FALSE
       ELSE /\ result[1].decoded = None
            /\ arg.codec = "common"
            /\ result' = Some([result[1] EXCEPT !.decoded =
                   Some(PeerMessage_try_from(
                       SubSeq(result[1].frame, 5, Len(result[1].frame))))])
    /\ UNCHANGED << arg, clientVars, trackerVars, handlerVars, peerVars,
                    announcerVars, dialVars >>

schema_PeerMessage_decoded ==
    /\ IF result = None THEN FALSE
       ELSE /\ result[1].decoded = None
            /\ arg.codec = "schema"
            /\ result' = Some([result[1] EXCEPT !.decoded =
                   Some(schema_PeerMessage_try_from(
                       SubSeq(result[1].frame, 5, Len(result[1].frame))))])
    /\ UNCHANGED << arg, clientVars, trackerVars, handlerVars, peerVars,
                    announcerVars, dialVars >>

MessageInit ==
    /\ ClientStart /\ runtime = "tokio"
    /\ TrackerStart /\ HandlersStart /\ PeerStart /\ AnnouncerStart /\ DialStart
    /\ MessagesGiven
    /\ result = None

MessageNext ==
    \/ PeerMessage_written
    \/ schema_PeerMessage_written
    \/ PeerMessage_decoded
    \/ schema_PeerMessage_decoded

MessageSpec == MessageInit /\ [][MessageNext]_vars

\* The frame is as long as its length field says.
Framed(frame) ==
    /\ Len(frame) >= 4
    /\ Len(frame) = 4 + u32_from_be_bytes(SubSeq(frame, 1, 4))

\* C30, as claimed: the frame written for a message is 4 bytes and the
\* value of its length field long, and its payload decodes to the message
\* written, for a Piece with the same index, begin, length and data.
C30_DecodesToMessageWritten ==
    result # None =>
        /\ Framed(result[1].frame)
        /\ result[1].decoded # None =>
              result[1].decoded[1] = Ok(arg.m)

\* A Piece as it is decoded: its length is the number of its data bytes.
AsDecoded(codec, m) ==
    IF codec = "common" /\ m.kind = "Piece"
    THEN [m EXCEPT !.block =
             BlockRef_from_be_bytes_with_len(@, Len(m.data))]
    ELSE m

\* C30, amended: the frame written for a message is 4 bytes and the value
\* of its length field long, and its payload decodes to the message
\* written, a Piece with the same index, begin and data and with the number
\* of its data bytes for length.
C30_DecodesToMessageFramed ==
    result # None =>
        /\ Framed(result[1].frame)
        /\ result[1].decoded # None =>
              result[1].decoded[1] = Ok(AsDecoded(arg.codec, arg.m))

\* A Piece of two data bytes was written and decoded with its length.
C30_Witness ==
    /\ result # None
    /\ arg.codec = "common"
    /\ arg.m.kind = "Piece"
    /\ Len(arg.m.data) = 2
    /\ BlockRef_length(arg.m.block) = 2
    /\ result[1].decoded = Some(Ok(arg.m))
    /\ Len(result[1].frame) = 15

\* ------------------------------------------- the payloads decoded ----
MaxPayload == 14    \* the bytes of a payload, at most

\* A payload: its first byte and the bytes after it, all alike.
IdsTried == 0..10 \cup {255}
PayloadOf(id, n, fill) ==
    IF n = 0 THEN << >> ELSE << id >> \o Repeat(<< fill >>, n - 1)

PayloadsGiven ==
    \E id \in IdsTried : \E n \in 0..MaxPayload : \E fill \in {0, 127} :
        arg = PayloadOf(id, n, fill)

\* PeerMessage::try_from(payload)
PeerMessage_tried ==
    /\ result = None
    /\ result' = Some(PeerMessage_try_from(arg))
    /\ UNCHANGED << arg, clientVars, trackerVars, handlerVars, peerVars,
                    announcerVars, dialVars >>

PayloadInit ==
    /\ ClientStart /\ runtime = "tokio"
    /\ TrackerStart /\ HandlersStart /\ PeerStart /\ AnnouncerStart /\ DialStart
    /\ PayloadsGiven
    /\ result = None

PayloadSpec == PayloadInit /\ [][PeerMessage_tried]_vars

\* The message table: the lengths a payload of each id may have.
InTable(id, len) ==
    \/ id \in 0..3 /\ len = 1
    \/ id = 4 /\ len = 5
    \/ id = 5 /\ len >= 1
    \/ id \in {6, 8} /\ len = 13
    \/ id = 7 /\ len >= 9
    \/ id = 9 /\ len = 3

\* C31: a payload decodes exactly when it is empty or its first byte and its
\* length are in the message table; every other payload gives BadLength or
\* UnknownId.
C31_DecodesByTable ==
    result # None =>
        /\ result[1].ok # None <=> (arg = << >> \/ InTable(arg[1], Len(arg)))
        /\ result[1].ok = None =>
              result[1].err \in {Some("BadLength"), Some("UnknownId")}

\* A Have of six bytes was turned away with BadLength.
C31_Witness ==
    /\ result # None
    /\ Len(arg) = 6
    /\ arg[1] = PEERMESSAGE_HAVE
    /\ result[1] = Err("BadLength")

\* ------------------------------------------------ the handshake frame ----
\* handshake: "\u{19}BitTorrent protocol\0\0\0\0\0\0\0\0".as_bytes(); the
\* escape \u{19} is the character U+0019, one byte of value 25.
PRELUDE == << 25 >> \o PROTOCOL_NAME \o Repeat(<< 0 >>, 8)

\* handshake(connection, info_hash, my_peer_id, None), the peer having sent
\* the bytes of frame: what it writes, and the peer-id it returns unless an
\* assert_eq! panics.
handshake(frame, info_hash, my_peer_id) ==
    IF SubSeq(frame, 1, 28) # PRELUDE
    THEN [written |-> << >>, returned |-> None]
    ELSE IF SubSeq(frame, 29, 28 + HASH_BYTES) # info_hash
    THEN [written |-> PRELUDE, returned |-> None]
    ELSE [written |-> PRELUDE \o info_hash \o my_peer_id,
          returned |-> Some(SubSeq(frame, 29 + HASH_BYTES,
                                   28 + 2 * HASH_BYTES))]

\* The hashes and peer-ids given, and the frames a peer sends: the layout
\* with 19 for its first byte, and the same with 25.
HashesGiven == { Repeat(<< b >>, HASH_BYTES) : b \in {0, 1, 127} }
FrameOf(first, info_hash, peer_id) ==
    << first >> \o PROTOCOL_NAME \o Repeat(<< 0 >>, 8) \o info_hash
    \o peer_id

HandshakesGiven ==
    \E info_hash \in HashesGiven : \E peer_id \in HashesGiven :
        \/ \E codec \in {"common", "schema"} :
              arg = [codec |-> codec, info_hash |-> info_hash,
                     peer_id |-> peer_id, frame |-> << >>]
        \/ \E first \in {19, 25} :
           \E theirs \in HashesGiven : \E their_id \in HashesGiven :
              arg = [codec |-> "handshake", info_hash |-> info_hash,
                     peer_id |-> peer_id,
                     frame |-> FrameOf(first, theirs, their_id)]

Handshake_of(a) ==
    [kind |-> "Handshake", info_hash |-> a.info_hash, peer_id |-> a.peer_id]

\* PeerMessage::Handshake { .. }.write_to(&mut buffer)
Handshake_written ==
    /\ result = None
    /\ arg.codec = "common"
    /\ result' = Some([written |-> PeerMessage_write_to(Handshake_of(arg)),
                       returned |-> None])
    /\ UNCHANGED << arg, clientVars, trackerVars, handlerVars, peerVars,
                    announcerVars, dialVars >>

\* Vec::<u8>::from(PeerMessage::Handshake { .. })
schema_Handshake_written ==
    /\ result = None
    /\ arg.codec = "schema"
    /\ result' = Some([written |-> schema_PeerMessage_into(Handshake_of(arg)),
                       returned |-> None])
    /\ UNCHANGED << arg, clientVars, trackerVars, handlerVars, peerVars,
                    announcerVars, dialVars >>

\* handshake(&mut connection, info_hash, my_peer_id, None)
handshake_run ==
    /\ result = None
    /\ arg.codec = "handshake"
    /\ result' = Some(handshake(arg.frame, arg.info_hash, arg.peer_id))
    /\ UNCHANGED << arg, clientVars, trackerVars, handlerVars, peerVars,
                    announcerVars, dialVars >>

HandshakeInit ==
    /\ ClientStart /\ runtime = "tokio"
    /\ TrackerStart /\ HandlersStart /\ PeerStart /\ AnnouncerStart /\ DialStart
    /\ HandshakesGiven
    /\ result = None

HandshakeNext == Handshake_written \/ schema_Handshake_written \/ handshake_run

HandshakeSpec == HandshakeInit /\ [][HandshakeNext]_vars

\* C32: the handshake frame of both encoders is 68 bytes: 19, the protocol
\* name, 8 zero bytes, the info-hash and the peer-id; and the prelude the
\* handshake routine expects and sends starts with 19 and the protocol name.
C32_HandshakeLayout ==
    result # None =>
        IF arg.codec = "handshake"
        THEN /\ (arg.frame[1] = 19 /\ SubSeq(arg.frame, 29, 48) = arg.info_hash)
                   => result[1].returned # None
             /\ result[1].written # << >> =>
                   SubSeq(result[1].written, 1, 20) = << 19 >> \o PROTOCOL_NAME
        ELSE /\ Len(result[1].written) = 68
             /\ result[1].written =
                   FrameOf(19, arg.info_hash, arg.peer_id)

\* C32, the encoders alone.
C32_EncodersLayout ==
    (result # None /\ arg.codec # "handshake") =>
        /\ Len(result[1].written) = 68
        /\ result[1].written = FrameOf(19, arg.info_hash, arg.peer_id)

\* ------------------------------------------------- hashes rendered ----
\* impl fmt::Display for InfoHash: write!(f, "{:x}", u) for each byte
RECURSIVE InfoHash_fmt(_)
InfoHash_fmt(bytes) ==
    IF bytes = << >> THEN << >>
    ELSE format_x(Head(bytes)) \o InfoHash_fmt(Tail(bytes))

\* The bytes given: below and from 16, and both ends.
HexBytes == {0, 1, 16, 17, 171, 255}
InfoHashesShown ==
    { << x, y >> \o Repeat(<< 117 >>, HASH_BYTES - 2) :
        x \in HexBytes, y \in HexBytes }
Md5sGiven == [1..Md5Len -> HexBytes]

RendersGiven ==
    \/ \E a \in InfoHashesShown : \E b \in InfoHashesShown :
          arg = [kind |-> "InfoHash", a |-> a, b |-> b]
    \/ \E a \in Md5sGiven : arg = [kind |-> "Md5Value", a |-> a, b |-> a]

\* format!("{}", info_hash), of two info-hashes
InfoHash_displayed ==
    /\ result = None
    /\ arg.kind = "InfoHash"
    /\ result' = Some([a |-> InfoHash_fmt(arg.a), b |-> InfoHash_fmt(arg.b)])
    /\ UNCHANGED << arg, clientVars, trackerVars, handlerVars, peerVars,
                    announcerVars, dialVars >>

\* BencodeValue::from(&md5)
Md5Value_written ==
    /\ result = None
    /\ arg.kind = "Md5Value"
    /\ result' = Some([a |-> Md5Value_into(arg.a), b |-> None])
    /\ UNCHANGED << arg, clientVars, trackerVars, handlerVars, peerVars,
                    announcerVars, dialVars >>

\* Md5Value::try_from(value), of the value written
Md5Value_read ==
    /\ IF result = None THEN FALSE
       ELSE /\ arg.kind = "Md5Value"
            /\ result[1].b = None
            /\ result' = Some([result[1] EXCEPT
                                  !.b = Some(Md5Value_try_from(result[1].a))])
    /\ UNCHANGED << arg, clientVars, trackerVars, handlerVars, peerVars,
                    announcerVars, dialVars >>

RenderInit ==
    /\ ClientStart /\ runtime = "tokio"
    /\ TrackerStart /\ HandlersStart /\ PeerStart /\ AnnouncerStart /\ DialStart
    /\ RendersGiven
    /\ result = None

RenderNext == InfoHash_displayed \/ Md5Value_written \/ Md5Value_read

RenderSpec == RenderInit /\ [][RenderNext]_vars

LowerHex(text) ==
    \A n \in 1..Len(text) : \E c \in 1..16 : text[n] = HexChar[c]

\* C33: an info-hash is rendered as 40 lowercase hexadecimal digits, two for
\* each byte, and two different info-hashes are never rendered alike.
C33_RendersTwoDigitsPerByte ==
    (result # None /\ arg.kind = "InfoHash") =>
        /\ Len(result[1].a) = 2 * HASH_BYTES
        /\ LowerHex(result[1].a)
        /\ arg.a # arg.b => result[1].a # result[1].b

\* C39: the encoding of an Md5Value is 32 hexadecimal characters (two for
\* each of its bytes) and decodes to the same Md5Value.
C39_Md5ValueRoundTrip ==
    (result # None /\ arg.kind = "Md5Value") =>
        /\ Len(result[1].a.b) = 2 * Md5Len
        /\ result[1].b # None => result[1].b[1] = Ok(arg.a)

\* ------------------------------------------- equal peers and their hash ----
\* C34: two Peer values that compare equal hash identically, so that a
\* lookup in a swarm that holds one of them finds it with the other, also
\* when the address or the key differ.
C34_EqualPeersHashAlike ==
    (eq_result # None /\ eq_result = Some(TRUE)) =>
        /\ Peer_hash(peer_a) = Peer_hash(peer_b)
        /\ \A collide \in BOOLEAN :
              Peers_find({peer_a}, peer_b, collide) = {peer_a}

\* ------------------------------------- the handshake of a dialled peer ----
\* common::peer::PRELUDE, the 28-byte prefix (the length byte 0x13, the
\* protocol name, eight zero bytes), and common::peer::PRELUDE_RESERVED,
\* eight reserved bytes.
common_peer_PRELUDE == << 19 >> \o PROTOCOL_NAME \o Repeat(<< 0 >>, 8)
PRELUDE_RESERVED == Repeat(<< 0 >>, 8)

\* The bytes of an InfoHash the client model names.
InfoHashBytes == [h \in InfoHashes |->
                    Repeat(<< IF h = KnownHash THEN 1 ELSE 2 >>, HASH_BYTES)]
PeerIdBytes == [p \in PeerIds |->
                  Repeat(<< IF p = "p1" THEN 65 ELSE 66 >>, HASH_BYTES)]

\* read_exact(&mut buf): the task waits until the stream holds the bytes.
Readable(stream, n) == Len(stream) >= n
Taken(stream, n) == SubSeq(stream, 1, n)
Rest(stream, n) == SubSeq(stream, n + 1, Len(stream))

\* send_handshake (connection.rs) and Connection<PendingOutgoing>::handshake
\* (peer/outgoing_connection.rs) are the same sequence; so are
\* accept_handshake and Connection<PendingIncoming>::handshake.
\* The dialler writes PRELUDE, then waits for the acceptor's PRELUDE.
send_handshake_PRELUDE ==
    /\ out_pc = "start"
    /\ to_in' = to_in \o common_peer_PRELUDE
    /\ out_pc' = "prelude"
    /\ UNCHANGED << in_pc, to_out, dialled >>
    /\ UNCHANGED << clientVars, trackerVars, handlerVars, peerVars,
                    codecVars, announcerVars >>

\* It reads PRELUDE, compares it, writes its info-hash and waits for 20
\* bytes.
send_handshake_info_hash ==
    /\ out_pc = "prelude"
    /\ Readable(to_out, Len(common_peer_PRELUDE))
    /\ to_out' = Rest(to_out, Len(common_peer_PRELUDE))
    /\ IF Taken(to_out, Len(common_peer_PRELUDE)) # common_peer_PRELUDE
       THEN /\ out_pc' = "failed"
            /\ UNCHANGED to_in
       ELSE /\ out_pc' = "info_hash"
            /\ to_in' = to_in \o dialled[1].info_hash
    /\ UNCHANGED << in_pc, dialled >>
    /\ UNCHANGED << clientVars, trackerVars, handlerVars, peerVars,
                    codecVars, announcerVars >>

\* It reads 20 bytes, compares them with its info-hash, writes its peer-id
\* and waits for 20 bytes.
send_handshake_peer_id ==
    /\ out_pc = "info_hash"
    /\ Readable(to_out, HASH_BYTES)
    /\ to_out' = Rest(to_out, HASH_BYTES)
    /\ IF Taken(to_out, HASH_BYTES) # dialled[1].info_hash
       THEN /\ out_pc' = "failed"
            /\ UNCHANGED to_in
       ELSE /\ out_pc' = "peer_id"
            /\ to_in' = to_in \o dialled[1].out_peer_id
    /\ UNCHANGED << in_pc, dialled >>
    /\ UNCHANGED << clientVars, trackerVars, handlerVars, peerVars,
                    codecVars, announcerVars >>

\* It reads 20 bytes: their peer-id.
send_handshake_Ok ==
    /\ out_pc = "peer_id"
    /\ Readable(to_out, HASH_BYTES)
    /\ to_out' = Rest(to_out, HASH_BYTES)
    /\ out_pc' = "active"
    /\ dialled' = Some([dialled[1] EXCEPT
                          !.out_their = Some(Taken(to_out, HASH_BYTES))])
    /\ UNCHANGED << in_pc, to_in >>
    /\ UNCHANGED << clientVars, trackerVars, handlerVars, peerVars,
                    codecVars, announcerVars >>

\* The acceptor reads PRELUDE, compares it and writes PRELUDE.
PendingIncoming_handshake_PRELUDE ==
    /\ in_pc = "prelude"
    /\ Readable(to_in, Len(common_peer_PRELUDE))
    /\ to_in' = Rest(to_in, Len(common_peer_PRELUDE))
    /\ IF Taken(to_in, Len(common_peer_PRELUDE)) # common_peer_PRELUDE
       THEN /\ in_pc' = "failed"
            /\ UNCHANGED to_out
       ELSE /\ in_pc' = "reserved"
            /\ to_out' = to_out \o common_peer_PRELUDE
    /\ UNCHANGED << out_pc, dialled >>
    /\ UNCHANGED << clientVars, trackerVars, handlerVars, peerVars,
                    codecVars, announcerVars >>

\* It reads as many bytes as PRELUDE_RESERVED has, whatever they are, and
\* writes PRELUDE_RESERVED.
PendingIncoming_handshake_PRELUDE_RESERVED ==
    /\ in_pc = "reserved"
    /\ Readable(to_in, Len(PRELUDE_RESERVED))
    /\ to_in' = Rest(to_in, Len(PRELUDE_RESERVED))
    /\ to_out' = to_out \o PRELUDE_RESERVED
    /\ in_pc' = "info_hash"
    /\ UNCHANGED << out_pc, dialled >>
    /\ UNCHANGED << clientVars, trackerVars, handlerVars, peerVars,
                    codecVars, announcerVars >>

\* It reads 20 bytes, sends them to the coordinator as HandshakeInfoHash
\* and waits for the answer.
PendingIncoming_handshake_info_hash ==
    /\ in_pc = "info_hash"
    /\ Readable(to_in, HASH_BYTES)
    /\ to_in' = Rest(to_in, HASH_BYTES)
    /\ dialled' = Some([dialled[1] EXCEPT
                          !.in_hash = Some(Taken(to_in, HASH_BYTES))])
    /\ in_pc' = "approval"
    /\ UNCHANGED << out_pc, to_out >>
    /\ UNCHANGED << clientVars, trackerVars, handlerVars, peerVars,
                    codecVars, announcerVars >>

\* The coordinator answers by its torrents (lib.rs, the HandshakeInfoHash
\* arm); approved, the acceptor writes the info-hash back.
PendingIncoming_handshake_answered ==
    /\ in_pc = "approval"
    /\ IF \E h \in DOMAIN torrents : InfoHashBytes[h] = dialled[1].in_hash[1]
       THEN /\ in_pc' = "peer_id"
            /\ to_out' = to_out \o dialled[1].in_hash[1]
       ELSE /\ in_pc' = "failed"
            /\ UNCHANGED to_out
    /\ UNCHANGED << out_pc, to_in, dialled >>
    /\ UNCHANGED << clientVars, trackerVars, handlerVars, peerVars,
                    codecVars, announcerVars >>

\* It reads 20 bytes, their peer-id, and writes its own.
PendingIncoming_handshake_Ok ==
    /\ in_pc = "peer_id"
    /\ Readable(to_in, HASH_BYTES)
    /\ to_in' = Rest(to_in, HASH_BYTES)
    /\ to_out' = to_out \o dialled[1].in_peer_id
    /\ dialled' = Some([dialled[1] EXCEPT
                          !.in_their = Some(Taken(to_in, HASH_BYTES))])
    /\ in_pc' = "active"
    /\ UNCHANGED out_pc
    /\ UNCHANGED << clientVars, trackerVars, handlerVars, peerVars,
                    codecVars, announcerVars >>

\* What a connection starts with: the dialler's info-hash, the two peer-ids.
Dialled(with, info_hash) ==
    Some([ with |-> with, info_hash |-> InfoHashBytes[info_hash],
           out_peer_id |-> PeerIdBytes["p1"],
           in_peer_id |-> PeerIdBytes["p2"],
           in_hash |-> None, out_their |-> None, in_their |-> None ])

\* The two ends of one connection are this client's dialler and this
\* client's acceptor ("both"), or one of them with a remote peer that has
\* sent its whole handshake, in the order that end reads it.
DialInit ==
    /\ ClientStart /\ TrackerStart /\ HandlersStart /\ PeerStart
    /\ CodecStart /\ AnnouncerStart
    /\ \E info_hash \in InfoHashes :
        \/ /\ dialled = Dialled("both", info_hash)
           /\ out_pc = "start" /\ in_pc = "prelude"
           /\ to_in = << >> /\ to_out = << >>
        \/ \E first \in {19, 25}, p \in PeerIds :
             /\ dialled = Dialled("acceptor", info_hash)
             /\ out_pc = "none" /\ in_pc = "prelude"
             /\ to_in = << first >> \o Tail(common_peer_PRELUDE)
                        \o PRELUDE_RESERVED
                        \o InfoHashBytes[info_hash] \o PeerIdBytes[p]
             /\ to_out = << >>
        \/ \E first \in {19, 25}, theirs \in InfoHashes, p \in PeerIds :
             /\ dialled = Dialled("dialler", info_hash)
             /\ out_pc = "start" /\ in_pc = "none"
             /\ to_in = << >>
             /\ to_out = << first >> \o Tail(common_peer_PRELUDE)
                         \o InfoHashBytes[theirs] \o PeerIdBytes[p]

DialNext ==
    \/ send_handshake_PRELUDE
    \/ send_handshake_info_hash
    \/ send_handshake_peer_id
    \/ send_handshake_Ok
    \/ PendingIncoming_handshake_PRELUDE
    \/ PendingIncoming_handshake_PRELUDE_RESERVED
    \/ PendingIncoming_handshake_info_hash
    \/ PendingIncoming_handshake_answered
    \/ PendingIncoming_handshake_Ok

DialSpec == DialInit /\ [][DialNext]_vars

\* A task waits in read_exact for more bytes than its stream holds.
DiallerWaits ==
    \/ out_pc = "prelude" /\ ~Readable(to_out, Len(common_peer_PRELUDE))
    \/ out_pc \in {"info_hash", "peer_id"} /\ ~Readable(to_out, HASH_BYTES)
AcceptorWaits ==
    \/ in_pc = "prelude" /\ ~Readable(to_in, Len(common_peer_PRELUDE))
    \/ in_pc = "reserved" /\ ~Readable(to_in, Len(PRELUDE_RESERVED))
    \/ in_pc \in {"info_hash", "peer_id"} /\ ~Readable(to_in, HASH_BYTES)

\* The dialler talks to the acceptor about a torrent the acceptor's
\* coordinator knows.
DialledToKnown ==
    /\ dialled # None
    /\ dialled[1].with = "both"
    /\ \E h \in DOMAIN torrents : InfoHashBytes[h] = dialled[1].info_hash

\* C35: when this client's dialling handshake talks to this client's
\* accepting handshake about a known info-hash, the two are never both
\* waiting for bytes the other will not send, and a side that has become
\* active holds the other side's peer-id.
C35_BothSidesComplete ==
    DialledToKnown =>
        /\ ~(DiallerWaits /\ AcceptorWaits)
        /\ out_pc = "active" => dialled[1].out_their = Some(dialled[1].in_peer_id)
        /\ in_pc = "active" => dialled[1].in_their = Some(dialled[1].out_peer_id)

\* ------------------------------------------ Request: as_query_string ----
\* u8::is_ascii_alphanumeric
is_ascii_alphanumeric(i) ==
    i \in (48..57) \cup (65..90) \cup (97..122)

\* i as char, for the characters the model's strings are made of.
CharOf(i) == CHOOSE c \in DOMAIN CharCode : CharCode[c] = i

\* Request::hex_chars with Request::hex_char
hex_chars(input) ==
    << HexChar[(input \div 16) + 1], HexChar[(input % 16) + 1] >>

\* Request::url_encode: an alphanumeric byte as its character, every other
\* byte as % and its two hex_chars.
RECURSIVE url_encode(_)
url_encode(slice) ==
    IF slice = << >> THEN << >>
    ELSE (IF is_ascii_alphanumeric(Head(slice))
          THEN << CharOf(Head(slice)) >>
          ELSE << "%" >> \o hex_chars(Head(slice)))
         \o url_encode(Tail(slice))

\* if let Some(x) = field { query_string.push_str(..) }
PushSome(field, text) == IF field = None THEN << >> ELSE text

Flag(b) == IF b THEN << "1" >> ELSE << "0" >>

\* Request::as_query_string
as_query_string(r) ==
    << "info_hash", "=" >> \o url_encode(r.info_hash)
    \o << "&", "peer_id", "=" >> \o url_encode(r.peer_id)
    \o << "&", "port", "=" >> \o NatToString(r.port)
    \o << "&", "uploaded", "=" >> \o NatToString(r.uploaded)
    \o << "&", "downloaded", "=" >> \o NatToString(r.downloaded)
    \o << "&", "left", "=" >> \o NatToString(r.left)
    \o PushSome(r.ip, << "&", "ip", "=" >> \o r.ip)
    \o PushSome(r.event, << "&", "event", "=" >> \o r.event)
    \o PushSome(r.numwant,
                << "&", "numwant", "=" >> \o NatToString(r.numwant[1]))
    \o PushSome(r.key,
                << "&", "key", "=", "{", "}" >> \o url_encode(r.key[1]))
    \o PushSome(r.compact, << "&", "compact", "=" >> \o Flag(r.compact[1]))
    \o PushSome(r.supportcrypto,
                << "&", "supportcrypto", "=" >> \o Flag(r.supportcrypto[1]))
    \o PushSome(r.requirecrypto,
                << "&", "requirecrypto", "=" >> \o Flag(r.requirecrypto[1]))
    \o PushSome(r.no_peer_id,
                << "&", "no_peer_id", "=" >> \o Flag(r.no_peer_id[1]))
    \o PushSome(r.trackerid,
                << "&", "trackerid", "=" >> \o url_encode(r.trackerid[1]))

\* The Requests written: every id of QsBytes, three ports, and the optional
\* fields absent, present with alphanumeric bytes, or present with a byte
\* that url_encode writes as %xx.
KeysGiven == { << 117 >>, << 117, 37 >> }
OptionalFieldsGiven ==
    { [ ip |-> None, event |-> None, numwant |-> None, key |-> None,
        compact |-> None, supportcrypto |-> None, requirecrypto |-> None,
        no_peer_id |-> None, trackerid |-> None ] }
    \cup
    { [ ip |-> Some("10.0.0.2"), event |-> Some(e), numwant |-> Some(80),
        key |-> None, compact |-> Some(b), supportcrypto |-> Some(~b),
        requirecrypto |-> Some(b), no_peer_id |-> Some(~b),
        trackerid |-> t ] :
        e \in Events, b \in BOOLEAN,
        t \in {None} \cup { Some(k) : k \in KeysGiven } }
    \cup
    { [ ip |-> None, event |-> None, numwant |-> None, key |-> Some(k),
        compact |-> None, supportcrypto |-> None, requirecrypto |-> None,
        no_peer_id |-> None, trackerid |-> None ] : k \in KeysGiven }

RequestsGiven ==
    \E info_hash \in [1..HashLen -> QsBytes], port \in {0, 6881, 65535},
       o \in OptionalFieldsGiven :
        arg = [ kind |-> "Request",
                request |->
                  [ info_hash |-> info_hash,
                    peer_id |-> [i \in 1..HashLen |-> 117],
                    port |-> port, uploaded |-> 0, downloaded |-> 80,
                    left |-> 5037,
                    ip |-> o.ip, event |-> o.event, numwant |-> o.numwant,
                    key |-> o.key, compact |-> o.compact,
                    supportcrypto |-> o.supportcrypto,
                    requirecrypto |-> o.requirecrypto,
                    no_peer_id |-> o.no_peer_id,
                    trackerid |-> o.trackerid ] ]

\* r.as_query_string().parse::<Request>()
Request_written ==
    /\ result = None
    /\ result' = Some([ written |-> as_query_string(arg.request),
                        parsed |->
                          Request_from_str(as_query_string(arg.request)) ])
    /\ UNCHANGED << arg, clientVars, trackerVars, handlerVars, peerVars,
                    announcerVars, dialVars >>

RequestInit ==
    /\ ClientStart /\ runtime = "threads"
    /\ TrackerStart /\ HandlersStart /\ PeerStart /\ AnnouncerStart /\ DialStart
    /\ RequestsGiven
    /\ result = None

RequestSpec == RequestInit /\ [][Request_written]_vars

\* C37: parsing the text of r.as_query_string() gives a Request equal to
\* r, whichever optional fields r has and whatever bytes its key and its
\* trackerid are made of.
C37_QueryStringRoundTrip ==
    result # None => result[1].parsed = Ok(arg.request)

\* The round trip of the Requests that have neither key nor trackerid.
C37_RoundTripWithoutKey ==
    (result # None /\ arg.request.key = None /\ arg.request.trackerid = None)
        => result[1].parsed = Ok(arg.request)

\* ------------------------------------- tracker responses, as bencode ----
K_interval == << "i", "n", "t", "e", "r", "v", "a", "l" >>
K_peers == << "p", "e", "e", "r", "s" >>
K_failure_reason ==
    << "f", "a", "i", "l", "u", "r", "e", " ", "r", "e", "a", "s", "o", "n" >>
K_warning_message ==
    << "w", "a", "r", "n", "i", "n", "g", " ", "m", "e", "s", "s", "a", "g",
       "e" >>
K_min_interval ==
    << "m", "i", "n", " ", "i", "n", "t", "e", "r", "v", "a", "l" >>
K_complete == << "c", "o", "m", "p", "l", "e", "t", "e" >>
K_incomplete == << "i", "n", "c", "o", "m", "p", "l", "e", "t", "e" >>
K_ip == << "i", "p" >>
K_port == << "p", "o", "r", "t" >>

\* BencodeValue::to_bytes, to_u64
to_bytes(v) == IF v.t = "Bytes" THEN Some(v.b) ELSE None
to_u64(v) == IF v.t = "Integer" /\ v.i >= 0 THEN Some(v.i) ELSE None

\* Option::and_then
and_then(o, F(_)) == IF o = None THEN None ELSE F(o[1])

\* The entry an Option adds to the dictionary, if it is Some.
Chained(o, key, F(_)) ==
    IF o = None THEN << >> ELSE << << key, F(o[1]) >> >>

\* From<&Peer> for BencodeValue: ip, port and, if there is one, the peer id.
Peer_into_BencodeValue(p) ==
    Dict(collect(
        << << K_ip, Bytes(<< p.addr.ip >>) >>,
           << K_port, Integer(p.addr.port) >> >>
        \o Chained(p.peer_id, << "p", "e", "e", "r", " ", "i", "d" >>,
                   Bytes)))

\* TryFrom<BencodeValue> for Peer
Peer_try_from_peer_id(b) == IF Len(b) = HashLen THEN Some(b) ELSE None
Peer_try_from_port(u) == IF u <= 65535 THEN Some(u) ELSE None
Peer_try_from(v) ==
    IF v.t # "Dict" THEN Err("Peer value must be a dict")
    ELSE
     LET peer_id ==
             and_then(and_then(
                 HashMap_remove(v.d, << "p", "e", "e", "r", "_", "i", "d" >>),
                 to_bytes), Peer_try_from_peer_id)
         ip == and_then(and_then(HashMap_remove(v.d, K_ip), to_string),
                        IpAddr_from_str)
         port == and_then(and_then(HashMap_remove(v.d, K_port), to_u64),
                          Peer_try_from_port)
     IN IF peer_id = None THEN Err("Missing or invalid peer_id value")
        ELSE IF ip = None THEN Err("Missing or invalid IP value")
        ELSE IF port = None THEN Err("Missing or invalid port value")
        ELSE Ok([ peer_id |-> peer_id,
                  addr |-> [ip |-> ip[1], port |-> port[1]] ])

\* From<&Response> for BencodeValue
Response_into_BencodeValue(r) ==
    IF r.kind = "Success"
    THEN Dict(collect(
        << << K_interval, Integer(r.interval) >>,
           << K_peers,
              List([n \in 1..Len(r.peers) |->
                      Peer_into_BencodeValue(r.peers[n])]) >> >>
        \o Chained(r.warning_message, K_warning_message, Bytes)
        \o Chained(r.min_interval, K_min_interval, Integer)
        \o Chained(r.tracker_id,
                   << "t", "r", "a", "c", "k", "e", "r", " ", "i", "d" >>,
                   Bytes)
        \o Chained(r.complete, K_complete, Integer)
        \o Chained(r.incomplete, K_incomplete, Integer)))
    ELSE Dict({ << K_failure_reason, Bytes(r.failure_reason) >> })

\* TryFrom<BencodeValue> for Response: the peers of a list.  A compact
\* peers string is not written by the encoder above.
Response_try_from_peers(l) ==
    IF \E n \in 1..Len(l) : Peer_try_from(l[n]).ok = None THEN None
    ELSE Some([n \in 1..Len(l) |-> Peer_try_from(l[n]).ok[1]])

Response_try_from(v) ==
    IF v.t # "Dict" THEN Err("()")
    ELSE
     LET failure_reason ==
             and_then(HashMap_remove(v.d, K_failure_reason), to_string)
         interval_value == HashMap_remove(v.d, K_interval)
         peers_value == HashMap_remove(v.d, K_peers)
     IN IF failure_reason # None
        THEN Ok([kind |-> "Failure", failure_reason |-> failure_reason[1]])
        ELSE IF interval_value = None \/ peers_value = None THEN Err("()")
        ELSE IF interval_value[1].t # "Integer" THEN Err("()")
        ELSE IF interval_value[1].i < 0 THEN Err("()")
        ELSE IF peers_value[1].t # "List" THEN Err("()")
        ELSE IF Response_try_from_peers(peers_value[1].l) = None
        THEN Err("()")
        ELSE Ok([ kind |-> "Success",
                  warning_message |->
                      and_then(HashMap_remove(v.d, K_warning_message),
                               to_string),
                  interval |-> interval_value[1].i,
                  min_interval |->
                      and_then(HashMap_remove(v.d, K_min_interval), to_u64),
                  tracker_id |->
                      and_then(HashMap_remove(v.d,
                          << "t", "r", "a", "c", "k", "e", "r", "_", "i",
                             "d" >>), to_bytes),
                  complete |->
                      and_then(HashMap_remove(v.d, K_complete), to_u64),
                  incomplete |->
                      and_then(HashMap_remove(v.d, K_incomplete), to_u64),
                  peers |-> Response_try_from_peers(peers_value[1].l)[1] ])

\* The responses encoded: a Success response with no, one or two peers,
\* with and without tracker id and counts, and a Failure response.
PeersListed ==
    LET p(port) == [ peer_id |-> Some([i \in 1..HashLen |-> "u"]),
                     addr |-> [ip |-> "10.0.0.2", port |-> port] ]
    IN { << >>, << p(6881) >>, << p(6881), p(65535) >> }

ResponsesGiven ==
    \/ \E interval \in {0, 60}, peers \in PeersListed,
          tracker_id \in {None, Some(<< "u", "xFF" >>)},
          complete \in {None, Some(0), Some(3)},
          incomplete \in {None, Some(5)},
          extra \in {None, Some(60)} :
        arg = [ kind |-> "Success", warning_message |-> None,
                interval |-> interval, min_interval |-> extra,
                tracker_id |-> tracker_id, complete |-> complete,
                incomplete |-> incomplete, peers |-> peers ]
    \/ arg = [ kind |-> "Failure", failure_reason |-> << "u" >> ]

\* Response::try_from(BencodeValue::from(&response))
Response_decoded ==
    /\ result = None
    /\ result' = Some(Response_try_from(Response_into_BencodeValue(arg)))
    /\ UNCHANGED << arg, clientVars, trackerVars, handlerVars, peerVars,
                    announcerVars, dialVars >>

ResponseInit ==
    /\ ClientStart /\ runtime = "threads"
    /\ TrackerStart /\ HandlersStart /\ PeerStart /\ AnnouncerStart /\ DialStart
    /\ ResponsesGiven
    /\ result = None

ResponseSpec == ResponseInit /\ [][Response_decoded]_vars

\* The address and the peer-id of every peer of a list.
Listed(peers) ==
    [n \in 1..Len(peers) |->
        [addr |-> peers[n].addr, peer_id |-> peers[n].peer_id]]

\* C38: a Success response the tracker encodes decodes into a Success
\* response with the same interval, complete, incomplete and tracker id,
\* and with peers of the same addresses and peer-ids.
C38_SuccessDecodesAlike ==
    (result # None /\ arg.kind = "Success") =>
        /\ result[1].ok # None
        /\ result[1].ok[1].kind = "Success"
        /\ result[1].ok[1].interval = arg.interval
        /\ result[1].ok[1].complete = arg.complete
        /\ result[1].ok[1].incomplete = arg.incomplete
        /\ result[1].ok[1].tracker_id = arg.tracker_id
        /\ Listed(result[1].ok[1].peers) = Listed(arg.peers)

\* What decodes alike: a Success response without peers and without
\* tracker id.
C38_DecodesWithoutPeers ==
    (result # None /\ arg.kind = "Success" /\ arg.peers = << >>
        /\ arg.tracker_id = None) => result[1] = Ok(arg)


====
